---- MODULE Spec2Model ----
(***************************************************************************)
(* Model of the labelled multidimensional data containers of               *)
(* pymodaq/utils/data.py: Axis, AxesManager, DataBase, DataWithAxes and    *)
(* DataToExport.                                                           *)
(*                                                                         *)
(* An ndarray is represented by its shape (a tuple of naturals); a         *)
(* DataWithAxes held by a DataToExport is represented by its name, its     *)
(* origin and a value standing for its payload (number of arrays, their    *)
(* shapes and values), which is what DataBase.__eq__ compares.             *)
(***************************************************************************)
EXTENDS Integers, Sequences, FiniteSets, TLC

VARIABLES
    dte_data,     \* DataToExport._data: the list of DataWithAxes
    data,         \* DataBase._data: list of ndarrays (their shapes)
    shape,        \* DataBase._shape
    size,         \* DataBase._size
    length,       \* DataBase._length
    dim,          \* DataBase._dim
    data_shape,   \* AxesManager._data_shape
    axes,         \* AxesManager._axes
    nav_indexes,  \* AxesManager._nav_indexes
    sig_indexes,  \* AxesManager._sig_indexes
    labels,       \* DataBase._labels
    default_labels, \* the list that is the default value of the labels parameter
    axis_obj,     \* an Axis object
    other_data,   \* the second operand of a call
    res,          \* the object a call returned
    last          \* the last call made: its name, arguments, outcome, pre-state

vars == <<dte_data, data, shape, size, length, dim,
          data_shape, axes, nav_indexes, sig_indexes,
          labels, default_labels, axis_obj, other_data, res, last>>

dteVars == <<dte_data>>
dbVars == <<data, shape, size, length, dim>>
amVars == <<data_shape, axes, nav_indexes, sig_indexes>>
lblVars == <<labels, default_labels>>
axVars == <<axis_obj>>
callVars == <<other_data, res>>

(***************************************************************************)
(* Generic helpers on sequences                                            *)
(***************************************************************************)
Range(s) == {s[i] : i \in 1..Len(s)}

\* s without its element at position i (list.pop(i - 1))
RemoveAt(s, i) == [j \in 1..(Len(s) - 1) |-> IF j < i THEN s[j] ELSE s[j + 1]]

Min(S) == CHOOSE x \in S : \A y \in S : x <= y

\* all sequences over S of length 0..n
SeqUpTo(S, n) == UNION {[1..k -> S] : k \in 0..n}

\* Python's None
None == "None"

\* the parts of the state a specification does not use
DteIdle == dte_data = <<>>
DbIdle == data = <<>> /\ shape = <<>> /\ size = 0 /\ length = 0 /\ dim = None
AmIdle == data_shape = <<>> /\ axes = <<>> /\ nav_indexes = <<>> /\ sig_indexes = <<>>
LblIdle == labels = <<>> /\ default_labels = <<>>
AxIdle == axis_obj = None
CallIdle == other_data = None /\ res = None

(***************************************************************************)
(* DataToExport                                                            *)
(***************************************************************************)
\* bounds of the DataToExport model
MaxLen == 3       \* longest DataToExport list explored
MaxBatch == 2     \* longest list / DataToExport passed to append

Origins == {None, "det0", "det1"}
Payloads == {0, 1}

\* the dim of a DataWithAxes of payload v: payload 0 is one value, the others are
\* arrays of one dimension
PayloadDim(v) == IF v = 0 THEN "Data0D" ELSE "Data1D"

\* a DataWithAxes as seen by DataToExport
DwaOf(n, o, v) == [name |-> n, origin |-> o, val |-> v, dim |-> PayloadDim(v)]

\* the DataWithAxes passed to append: every origin and payload under name "a", and
\* one object of another name
Dwa == {DwaOf("a", o, v) : o \in Origins, v \in Payloads} \cup {DwaOf("b", "det0", 0)}

\* the DataWithAxes found in the lists and DataToExport passed to append
BatchDwa == {DwaOf("a", None, 0), DwaOf("a", "det0", 0), DwaOf("b", "det0", 0)}

\* DataBase.__eq__: same name, same length, arrays of same shape and close values
DataEq(a, b) == a.name = b.name /\ a.val = b.val

\* list.index(obj): position of the first element that is obj or equals obj
ListIndex(lst, obj) == Min({i \in 1..Len(lst) : DataEq(lst[i], obj)})

\* find_objects_in_list_from_attr_name_val(objects, attr, value, return_first=True):
\* the position of the first object whose attribute has the value, 0 when none
FindFirst(objects, attr, value) ==
    LET hits == {i \in 1..Len(objects) : objects[i][attr] = value}
    IN  IF hits = {} THEN 0 ELSE Min(hits)

\* find_objects_in_list_from_attr_name_val(..., return_first=False): the objects
\* whose attribute has the value, in list order
FindAll(objects, attr, value) == SelectSeq(objects, LAMBDA o : o[attr] = value)

\* DataToExport.get_data_from_name_origin: <<found, object>>
get_data_from_name_origin(lst, name, origin) ==
    IF origin = None
    THEN LET i == FindFirst(lst, "name", name)
         IN  IF i = 0 THEN <<FALSE, None>> ELSE <<TRUE, lst[i]>>
    ELSE LET selection == FindAll(lst, "name", name)
             i == FindFirst(selection, "origin", origin)
         IN  IF i = 0 THEN <<FALSE, None>> ELSE <<TRUE, selection[i]>>

\* DataToExport.append(DataWithAxes): the list after the call
append(lst, x) ==
    LET obj == get_data_from_name_origin(lst, x.name, x.origin)
    IN  IF obj[1]
        THEN Append(RemoveAt(lst, ListIndex(lst, obj[2])), x)
        ELSE Append(lst, x)

\* DataToExport.append(list) and append(DataToExport): one append per element
RECURSIVE append_all(_, _)
append_all(lst, xs) ==
    IF xs = <<>> THEN lst ELSE append_all(append(lst, Head(xs)), Tail(xs))

\* DataToExport(name, data=[]): the object right after construction
DteCtor ==
    /\ dte_data = <<>>
    /\ last = [op |-> "init"]

AppendOne ==
    \E x \in Dwa :
        /\ Len(append(dte_data, x)) <= MaxLen
        /\ dte_data' = append(dte_data, x)
        /\ last' = [op |-> "append", x |-> x, pre |-> dte_data]
        /\ UNCHANGED <<dbVars, amVars, lblVars, axVars, callVars>>

AppendList ==
    \E xs \in SeqUpTo(BatchDwa, MaxBatch) :
        /\ Len(append_all(dte_data, xs)) <= MaxLen
        /\ dte_data' = append_all(dte_data, xs)
        /\ last' = [op |-> "append_list"]
        /\ UNCHANGED <<dbVars, amVars, lblVars, axVars, callVars>>

AppendDte ==
    \E other \in SeqUpTo(BatchDwa, MaxBatch) :
        /\ Len(append_all(dte_data, other)) <= MaxLen
        /\ dte_data' = append_all(dte_data, other)
        /\ last' = [op |-> "append_dte"]
        /\ UNCHANGED <<dbVars, amVars, lblVars, axVars, callVars>>

DteNext == AppendOne \/ AppendList \/ AppendDte

\* the name of the DataToExport
DteName == "dte"

\* the names of the DataWithAxes, in increasing order
Names == <<"a", "b">>

\* DataToExport.affect_name_to_origin_if_none: the members after the call
affect_name_to_origin_if_none(lst, name) ==
    [i \in 1..Len(lst) |->
        IF lst[i].origin = None THEN [lst[i] EXCEPT !.origin = name] ELSE lst[i]]

\* selection.sort(key=lambda elt: elt[0].name): the stable sort by name
RECURSIVE SortByNames(_, _)
SortByNames(sel, names) ==
    IF names = <<>> THEN <<>>
    ELSE SelectSeq(sel, LAMBDA o : o.name = Head(names)) \o SortByNames(sel, Tail(names))

\* DataToExport.get_data_from_dim(dim, deepcopy): the data of the DataToExport
\* returned and the members of self after the call; the members selected are handed
\* to the constructor of the DataToExport returned, whose data setter gives its name
\* as origin to those of no origin, which are copies only with deepcopy
get_data_from_dim(lst, name, d, deepcopy) ==
    LET selection == SortByNames(FindAll(lst, "dim", d), Names)
    IN  [ret |-> affect_name_to_origin_if_none(selection, name),
         self |-> IF deepcopy THEN lst
                  ELSE [i \in 1..Len(lst) |->
                          IF lst[i].dim = d /\ lst[i].origin = None
                          THEN [lst[i] EXCEPT !.origin = name]
                          ELSE lst[i]]]

\* DataToExport.get_data_from_dims(dims, deepcopy): one get_data_from_dim per dim,
\* each appended to a new DataToExport
RECURSIVE get_data_from_dims(_, _, _, _, _)
get_data_from_dims(lst, name, dims, deepcopy, acc) ==
    IF dims = <<>> THEN [ret |-> acc, self |-> lst]
    ELSE LET g == get_data_from_dim(lst, name, Head(dims), deepcopy)
         IN  get_data_from_dims(g.self, name, Tail(dims), deepcopy, append_all(acc, g.ret))

\* DataBase.get_full_name
get_full_name(x) == x.origin \o "/" \o x.name

\* DataToExport.get_names(dim) and get_full_names(dim): the list returned and the
\* members of self after the call
get_names(lst, name, d) ==
    LET g == IF d = None THEN [ret |-> lst, self |-> lst]
             ELSE get_data_from_dim(lst, name, d, FALSE)
    IN  [ret |-> [i \in 1..Len(g.ret) |-> g.ret[i].name], self |-> g.self]
get_full_names(lst, name, d) ==
    LET g == IF d = None THEN [ret |-> lst, self |-> lst]
             ELSE get_data_from_dim(lst, name, d, FALSE)
    IN  [ret |-> [i \in 1..Len(g.ret) |-> get_full_name(g.ret[i])], self |-> g.self]

\* the dims a lookup is made for
LookupDims == {"Data0D", "Data1D"}

\* the lookups: the value returned is handed to the caller, the state keeps what the
\* call did to the members
GetDataFromNameOrigin ==
    \E name \in {"a", "c"}, origin \in Origins :
        /\ last' = [op |-> "get_data_from_name_origin", x |-> None, pre |-> dte_data]
        /\ UNCHANGED <<dteVars, dbVars, amVars, lblVars, axVars, callVars>>

GetDataFromDim ==
    \E d \in LookupDims, deepcopy \in BOOLEAN :
        LET g == get_data_from_dim(dte_data, DteName, d, deepcopy)
        IN  /\ dte_data' = g.self
            /\ last' = [op |-> "get_data_from_dim", x |-> None, pre |-> dte_data]
            /\ UNCHANGED <<dbVars, amVars, lblVars, axVars, callVars>>

GetDataFromDims ==
    \E dims \in SeqUpTo(LookupDims, MaxBatch), deepcopy \in BOOLEAN :
        LET g == get_data_from_dims(dte_data, DteName, dims, deepcopy, <<>>)
        IN  /\ dte_data' = g.self
            /\ last' = [op |-> "get_data_from_dims", x |-> None, pre |-> dte_data]
            /\ UNCHANGED <<dbVars, amVars, lblVars, axVars, callVars>>

GetNames ==
    \E d \in LookupDims \cup {None} :
        LET g == get_names(dte_data, DteName, d)
        IN  /\ dte_data' = g.self
            /\ last' = [op |-> "get_names", x |-> None, pre |-> dte_data]
            /\ UNCHANGED <<dbVars, amVars, lblVars, axVars, callVars>>

GetFullNames ==
    \E d \in LookupDims \cup {None} :
        LET g == get_full_names(dte_data, DteName, d)
        IN  /\ dte_data' = g.self
            /\ last' = [op |-> "get_full_names", x |-> None, pre |-> dte_data]
            /\ UNCHANGED <<dbVars, amVars, lblVars, axVars, callVars>>

LookupNext ==
    \/ AppendOne
    \/ GetDataFromNameOrigin
    \/ GetDataFromDim
    \/ GetDataFromDims
    \/ GetNames
    \/ GetFullNames

(***************************************************************************)
(* DataBase                                                                *)
(***************************************************************************)
\* bound of the DataBase model
MaxArrays == 2    \* longest list of ndarrays

\* the shapes of the ndarrays explored: no dimension, one dimension of size 0, 1
\* and 2, two dimensions, three dimensions
ArrayShapes == {<<>>, <<0>>, <<1>>, <<2>>, <<2, 2>>, <<2, 2, 2>>}

\* an element of a list: an ndarray of some shape, or something that is no ndarray
Arr(s) == [isarray |-> TRUE, shape |-> s]
NotArray == [isarray |-> FALSE, shape |-> <<>>]

\* ndarray.size: the product of the dimensions
RECURSIVE Prod(_)
Prod(s) == IF s = <<>> THEN 1 ELSE Head(s) * Prod(Tail(s))

DataDims == {"Data0D", "Data1D", "Data2D", "DataND"}

\* what can be passed as data: a list, a bare ndarray, a number, None, another type;
\* the lists are empty, hold one element k times, or hold k arrays the last of which
\* has another shape
OddElements == {Arr(<<1>>), Arr(<<2, 2>>)}
UniformList(e, k) == [i \in 1..k |-> e]
ListInputs ==
    {<<>>}
    \cup {UniformList(e, k) : e \in {Arr(s) : s \in ArrayShapes} \cup {NotArray},
                              k \in 1..MaxArrays}
    \cup UNION {{[UniformList(Arr(s), k) EXCEPT ![k] = o] : o \in OddElements} :
                s \in ArrayShapes, k \in 2..MaxArrays}
DataInputs ==
    {[kind |-> "list", items |-> l] : l \in ListInputs}
    \cup {[kind |-> "ndarray", items |-> <<Arr(s)>>] : s \in ArrayShapes}
    \cup {[kind |-> "number", items |-> <<>>],
          [kind |-> "None", items |-> <<>>],
          [kind |-> "other", items |-> <<>>]}

\* DataBase._check_data_type: the exception raised ("" when none) and the list made
_check_data_type(d) ==
    LET wrapped == IF d.kind = "ndarray" THEN d.items
                   ELSE IF d.kind = "number" THEN <<Arr(<<1>>)>>
                   ELSE d.items
        islist  == d.kind \in {"list", "ndarray", "number"}
    IN  IF ~islist THEN [exc |-> "TypeError", data |-> <<>>]
        ELSE IF Len(wrapped) = 0 THEN [exc |-> "IndexError", data |-> <<>>]
        ELSE IF ~wrapped[1].isarray THEN [exc |-> "TypeError", data |-> <<>>]
        ELSE IF Len(wrapped[1].shape) = 0 THEN [exc |-> "TypeError", data |-> <<>>]
        ELSE [exc |-> "", data |-> wrapped]

\* DataBase.get_dim_from_data: the DataDim of arrays of shape s
get_dim_from_data(s) ==
    IF Len(s) = 1 /\ Prod(s) = 1 THEN "Data0D"
    ELSE IF Len(s) = 1 /\ Prod(s) > 1 THEN "Data1D"
    ELSE IF Len(s) = 2 THEN "Data2D"
    ELSE "DataND"

\* _check_shape_dim_consistency keeping a dim that was passed (the replacement of
\* an incoherent dim left out)
KeepPassedDim(olddim, d) ==
    IF olddim = None THEN get_dim_from_data(d[1].shape) ELSE olddim

\* DataBase._check_shape_dim_consistency: the new _dim, given the old one
_check_shape_dim_consistency(olddim, d) ==
    LET derived == get_dim_from_data(d[1].shape)
    IN  IF olddim = None THEN derived
        ELSE IF olddim # derived THEN derived ELSE olddim

\* DataBase._check_same_shape: the exception raised ("" when none)
_check_same_shape(d, shp) ==
    IF \A i \in 1..Len(d) : d[i].shape = shp THEN "" ELSE "DataShapeError"

\* the data setter of DataBase, from a state (olddata, olddim): the state it leaves
\* and the exception it raises
data_setter(olddata, oldshape, oldsize, oldlength, olddim, d) ==
    LET t == _check_data_type(d)
    IN  IF t.exc # ""
        THEN [exc |-> t.exc, data |-> olddata, shape |-> oldshape, size |-> oldsize,
              length |-> oldlength, dim |-> olddim]
        ELSE LET shp == t.data[1].shape
                 e   == _check_same_shape(t.data, shp)
             IN  [exc |-> e,
                  data |-> IF e = "" THEN t.data ELSE olddata,
                  shape |-> shp,
                  size |-> Prod(shp),
                  length |-> Len(t.data),
                  dim |-> _check_shape_dim_consistency(olddim, t.data)]

\* a list of ndarrays that do not all have the same shape
MixedShapes(d) ==
    /\ d.kind = "list"
    /\ d.items # <<>>
    /\ \A i \in 1..Len(d.items) : d.items[i].isarray
    /\ Len(d.items[1].shape) > 0
    /\ \E i \in 1..Len(d.items) : d.items[i].shape # d.items[1].shape

\* DataBase(name, dim=dimarg, data=d): the constructions that raise nothing
DbCtor ==
    \E d \in DataInputs, dimarg \in DataDims \cup {None} :
        LET r == data_setter(<<>>, <<>>, 0, 0, dimarg, d)
        IN  /\ r.exc = ""
            /\ data = r.data
            /\ shape = r.shape
            /\ size = r.size
            /\ length = r.length
            /\ dim = r.dim
            /\ last = [op |-> "construct", exc |-> "", dimarg |-> dimarg, mixed |-> FALSE]

\* DataBase.data = d, for d among inputs
SetDataIn(inputs) ==
    \E d \in inputs :
        LET r == data_setter(data, shape, size, length, dim, d)
        IN  /\ data' = r.data
            /\ shape' = r.shape
            /\ size' = r.size
            /\ length' = r.length
            /\ dim' = r.dim
            /\ last' = [op |-> "set_data", exc |-> r.exc, dimarg |-> None, mixed |-> MixedShapes(d)]
            /\ UNCHANGED <<dteVars, amVars, lblVars, axVars, callVars>>

SetData == SetDataIn(DataInputs)

\* DataBase.__setitem__(key, value)
SetItem ==
    \E key \in 0..MaxArrays, value \in {Arr(s) : s \in ArrayShapes} \cup {NotArray} :
        LET accepted == key < length /\ value.isarray /\ value.shape = shape
                        /\ key < Len(data)
        IN  /\ data' = IF accepted THEN [data EXCEPT ![key + 1] = value] ELSE data
            /\ last' = [op |-> "setitem", exc |-> IF accepted THEN "" ELSE "IndexError",
                        dimarg |-> None, mixed |-> FALSE]
            /\ UNCHANGED <<shape, size, length, dim, dteVars, amVars, lblVars, axVars, callVars>>

DbNext == SetData \/ SetItem

\* the digits of a decimal number
Digits == <<"0", "1", "2", "3", "4", "5", "6", "7", "8", "9">>

\* f'CH{k:02d}': the label given to the array at position k
ChannelLabel(k) == "CH" \o Digits[((k \div 10) % 10) + 1] \o Digits[(k % 10) + 1]

\* DataBase._check_labels(lst): the list after the missing labels are appended to it
RECURSIVE _check_labels(_, _)
_check_labels(lst, len) ==
    IF Len(lst) < len
    THEN _check_labels(Append(lst, ChannelLabel(Len(lst))), len)
    ELSE lst

\* the labels argument of the constructor: left out, or a list made by the caller
NotPassed == [passed |-> FALSE, value |-> <<>>]
Passed(l) == [passed |-> TRUE, value |-> l]
LabelArgs == {NotPassed, Passed(<<>>), Passed(<<"x">>)}

\* DataBase(name, data=d, labels=lab): __init__ assigns data, then _check_labels
\* completes the list it was given, which is the default list of the parameter when
\* the argument is left out; a construction that raises leaves no object, and the
\* object built before it is the one observed
Construct ==
    \E d \in DataInputs, lab \in LabelArgs :
        LET r == data_setter(<<>>, <<>>, 0, 0, None, d)
            lst == IF lab.passed THEN lab.value ELSE default_labels
        IN  /\ IF r.exc = ""
               THEN /\ data' = r.data
                    /\ shape' = r.shape
                    /\ size' = r.size
                    /\ length' = r.length
                    /\ dim' = r.dim
                    /\ labels' = _check_labels(lst, r.length)
                    /\ default_labels' = IF lab.passed THEN default_labels
                                         ELSE _check_labels(lst, r.length)
               ELSE UNCHANGED <<dbVars, lblVars>>
            /\ last' = [op |-> "construct", exc |-> r.exc, d |-> d, lab |-> lab]
            /\ UNCHANGED <<dteVars, amVars, axVars, callVars>>

\* the module right after its import: no DataBase built, the default list empty
NoDataBase ==
    /\ DbIdle
    /\ LblIdle
    /\ last = [op |-> "import", exc |-> "", d |-> [kind |-> "None", items |-> <<>>],
               lab |-> NotPassed]

CtorNext == Construct

(***************************************************************************)
(* Arithmetic of DataBase and DataToExport                                 *)
(***************************************************************************)
\* an ndarray of shape s whose elements all have the value v
ValArr(s, v) == [isarray |-> TRUE, shape |-> s, v |-> v]

\* a DataWithAxes given by its name, its origin and its list of ndarrays
DataOf(n, o, arrays) == [name |-> n, origin |-> o, data |-> arrays]

\* copy.deepcopy(obj) and copy.copy(obj) of an object that holds a list: the list
\* held by the copy, and whether it is the very list obj holds
copy_copy(lst) == [data |-> lst, shared |-> TRUE]

\* the shallow copy in place of the deep one
DeepcopyAsCopy(lst) == copy_copy(lst)

deepcopy(lst) == [data |-> lst, shared |-> FALSE]

\* the loop "for ind in range(len(new_data)): new_data[ind] = results[ind]" on the
\* copy new_data of self, results[ind] being the value or the exception of the
\* expression assigned: the exception raised ("" when none), the list of new_data
\* and the list of self after it
assign_each(self, new_data, results) ==
    LET n == Len(results)
        bad == {i \in 1..n : results[i].exc # ""}
        stop == IF bad = {} THEN n + 1 ELSE Min(bad)
        written == [i \in 1..Len(new_data.data) |->
                      IF i < stop THEN results[i].obj ELSE new_data.data[i]]
    IN  [exc |-> IF bad = {} THEN "" ELSE results[stop].exc,
         ret |-> [data |-> written, shared |-> new_data.shared],
         self |-> IF new_data.shared THEN written ELSE self]

\* the value, or the exception, of an expression
Value(v) == [exc |-> "", obj |-> v]
Failure(e) == [exc |-> e, obj |-> None]

\* the shape numpy gives to the difference of two arrays of one dimension (<<>>
\* when they cannot be broadcast together)
Broadcast(s, t) ==
    IF s = t THEN s ELSE IF s = <<1>> THEN t ELSE IF t = <<1>> THEN s ELSE <<>>

\* DataBase.__setitem__(key, value) as the loops of the operators call it (key is
\* an index of the list): the value stored, or IndexError when its shape is not
\* that of the DataBase
db_setitem(shp, value) ==
    IF value.exc # "" THEN value
    ELSE IF value.obj.shape = shp THEN value ELSE Failure("IndexError")

\* the result of an operator of DataBase on x: what it raises, the object it
\* returns (whether its list is the list of x included) and x after the call
db_result(x, r) ==
    [exc |-> r.exc,
     obj |-> [x EXCEPT !.data = r.ret.data],
     shared |-> r.ret.shared,
     self |-> [x EXCEPT !.data = r.self]]
db_raise(x, e) == [exc |-> e, obj |-> x, shared |-> FALSE, self |-> x]

\* DataBase.__add__
db_add(x, y) ==
    IF Len(y.data) = Len(x.data)
    THEN db_result(x, assign_each(x.data, deepcopy(x.data),
            [i \in 1..Len(x.data) |->
                IF x.data[i].shape # y.data[i].shape THEN Failure("ValueError")
                ELSE db_setitem(x.data[1].shape,
                        Value(ValArr(x.data[i].shape, x.data[i].v + y.data[i].v)))]))
    ELSE db_raise(x, "TypeError")

\* DataBase.__sub__
db_sub(x, y) ==
    IF Len(y.data) = Len(x.data)
    THEN db_result(x, assign_each(x.data, deepcopy(x.data),
            [i \in 1..Len(x.data) |->
                IF Broadcast(x.data[i].shape, y.data[i].shape) = <<>>
                THEN Failure("ValueError")
                ELSE db_setitem(x.data[1].shape,
                        Value(ValArr(Broadcast(x.data[i].shape, y.data[i].shape),
                                     x.data[i].v - y.data[i].v)))]))
    ELSE db_raise(x, "TypeError")

\* a number, or something that is no number, passed to * and /
Number(k) == [isnumber |-> TRUE, k |-> k, inverse |-> FALSE]
NoNumber == [isnumber |-> FALSE, k |-> 0, inverse |-> FALSE]

\* 1 / k, for k that is not 0
Inverse(num) == [num EXCEPT !.inverse = ~num.inverse]

\* v * num; the product by the inverse of k is the quotient by k, a whole number
\* for the operands explored
Times(v, num) == IF num.inverse THEN v \div num.k ELSE v * num.k

\* DataBase.__mul__
db_mul(x, num) ==
    IF num.isnumber
    THEN db_result(x, assign_each(x.data, deepcopy(x.data),
            [i \in 1..Len(x.data) |->
                db_setitem(x.data[1].shape,
                    Value(ValArr(x.data[i].shape, Times(x.data[i].v, num))))]))
    ELSE db_raise(x, "TypeError")

\* DataBase.__truediv__: self * (1 / other)
db_truediv(x, num) ==
    IF num.isnumber
    THEN IF num.k = 0 THEN db_raise(x, "ZeroDivisionError") ELSE db_mul(x, Inverse(num))
    ELSE db_raise(x, "TypeError")

\* DataBase.average(other, weight): (other * (weight - 1) + copy.copy(self)) / weight
db_average(x, y, weight) ==
    IF Len(y.data) = Len(x.data) /\ weight.isnumber
    THEN LET m == db_mul(y, Number(weight.k - 1))
             a == db_add(m.obj, x)
             d == db_truediv(a.obj, weight)
         IN  IF m.exc # "" THEN db_raise(x, m.exc)
             ELSE IF a.exc # "" THEN db_raise(x, a.exc)
             ELSE IF d.exc # "" THEN db_raise(x, d.exc)
             ELSE [exc |-> "", obj |-> d.obj, shared |-> FALSE, self |-> x]
    ELSE db_raise(x, "TypeError")

\* the second operand of an operator of DataToExport: a DataToExport, or an object
\* of another type
DteOperand(lst) == [isdte |-> TRUE, data |-> lst]
NoDte == [isdte |-> FALSE, data |-> <<>>]

\* the first member whatever the position asked for
GetFirstItem(lst, item) == lst[1]

\* DataToExport.__getitem__(item), item being an index of the list
dte_getitem(lst, item) == lst[item + 1]

\* the result of an operator of DataToExport on a list lst
dte_result(r) == [exc |-> r.exc, data |-> r.ret.data, shared |-> r.ret.shared,
                  self |-> r.self]
dte_raise(lst, e) == [exc |-> e, data |-> <<>>, shared |-> FALSE, self |-> lst]

\* what is assigned to new_data[ind_dfp]: the object a DataBase operator returned
member(r) == IF r.exc = "" THEN Value(r.obj) ELSE Failure(r.exc)

\* DataToExport.__add__
dte_add(lst, b) ==
    IF b.isdte /\ Len(b.data) = Len(lst)
    THEN dte_result(assign_each(lst, deepcopy(lst),
            [i \in 1..Len(lst) |->
                member(db_add(dte_getitem(lst, i - 1), dte_getitem(b.data, i - 1)))]))
    ELSE dte_raise(lst, "TypeError")

\* DataToExport.__sub__
dte_sub(lst, b) ==
    IF b.isdte /\ Len(b.data) = Len(lst)
    THEN dte_result(assign_each(lst, deepcopy(lst),
            [i \in 1..Len(lst) |->
                member(db_sub(dte_getitem(lst, i - 1), dte_getitem(b.data, i - 1)))]))
    ELSE dte_raise(lst, "TypeError")

\* DataToExport.__mul__
dte_mul(lst, num) ==
    IF num.isnumber
    THEN dte_result(assign_each(lst, deepcopy(lst),
            [i \in 1..Len(lst) |-> member(db_mul(dte_getitem(lst, i - 1), num))]))
    ELSE dte_raise(lst, "TypeError")

\* DataToExport.__truediv__: self * (1 / other)
dte_truediv(lst, num) ==
    IF num.isnumber
    THEN IF num.k = 0 THEN dte_raise(lst, "ZeroDivisionError")
         ELSE dte_mul(lst, Inverse(num))
    ELSE dte_raise(lst, "TypeError")

\* DataToExport.average(other, weight): the loop assigns to copy.copy(self)
dte_average(lst, b, weight) ==
    IF b.isdte /\ Len(b.data) = Len(lst)
    THEN dte_result(assign_each(lst, copy_copy(lst),
            [i \in 1..Len(lst) |->
                member(db_average(dte_getitem(lst, i - 1), dte_getitem(b.data, i - 1),
                                  weight))]))
    ELSE dte_raise(lst, "TypeError")

\* the DataWithAxes of the first operand: two names, arrays of one element
ArithMembers ==
    {DataOf("a", "det0", <<ValArr(<<1>>, 2)>>),
     DataOf("b", "det0", <<ValArr(<<1>>, 0)>>)}

\* the DataWithAxes of the second operand: arrays of one and of two elements
OtherMembers ==
    {DataOf("a", "det0", <<ValArr(<<1>>, 2)>>),
     DataOf("a", "det0", <<ValArr(<<2>>, 2)>>)}

\* the numbers passed to * and /, and the weights passed to average
Numbers == {Number(0), Number(1), Number(2)}

\* every value of the members of lst is a multiple of k (any k when k is 0)
Divisible(lst, k) ==
    k # 0 => \A i \in 1..Len(lst) : \A j \in 1..Len(lst[i].data) : lst[i].data[j].v % k = 0

\* every value of x * (weight - 1) + y, member by member, is a multiple of weight
AverageIsWhole(lst, b, weight) ==
    (b.isdte /\ Len(b.data) = Len(lst) /\ weight # 0)
    => \A i \in 1..Len(lst) :
          \A j \in 1..Len(lst[i].data) :
             j <= Len(b.data[i].data)
             => (b.data[i].data[j].v * (weight - 1) + lst[i].data[j].v) % weight = 0

\* the DataWithAxes assigned to an item of a DataToExport
NewMember == DataOf("c", "det0", <<ValArr(<<1>>, 1)>>)

\* two DataToExport built from lists (the second operand may be of another type)
Operands ==
    /\ dte_data \in SeqUpTo(ArithMembers, MaxBatch)
    /\ other_data \in {DteOperand(l) : l \in SeqUpTo(OtherMembers, MaxBatch)} \cup {NoDte}
    /\ res = dte_raise(<<>>, "")
    /\ last = [op |-> "init", of |-> "init", a |-> dte_data, b |-> other_data]

\* r = a + b: the operands after the call, and what it returned
DteAdd ==
    LET r == dte_add(dte_data, other_data)
    IN  /\ dte_data' = r.self
        /\ res' = [r EXCEPT !.self = <<>>]
        /\ last' = [op |-> "add", of |-> "add", a |-> dte_data, b |-> other_data]
        /\ UNCHANGED <<dbVars, amVars, lblVars, axVars, other_data>>

\* r = a - b
DteSub ==
    LET r == dte_sub(dte_data, other_data)
    IN  /\ dte_data' = r.self
        /\ res' = [r EXCEPT !.self = <<>>]
        /\ last' = [op |-> "sub", of |-> "sub", a |-> dte_data, b |-> other_data]
        /\ UNCHANGED <<dbVars, amVars, lblVars, axVars, other_data>>

\* r = a * k
DteMul ==
    \E num \in Numbers \cup {NoNumber} :
        LET r == dte_mul(dte_data, num)
        IN  /\ dte_data' = r.self
            /\ res' = [r EXCEPT !.self = <<>>]
            /\ last' = [op |-> "mul", of |-> "mul", a |-> dte_data, b |-> other_data]
            /\ UNCHANGED <<dbVars, amVars, lblVars, axVars, other_data>>

\* r = a / k
DteDiv ==
    \E num \in Numbers \cup {NoNumber} :
        LET r == dte_truediv(dte_data, num)
        IN  /\ Divisible(dte_data, num.k)
            /\ dte_data' = r.self
            /\ res' = [r EXCEPT !.self = <<>>]
            /\ last' = [op |-> "div", of |-> "div", a |-> dte_data, b |-> other_data]
            /\ UNCHANGED <<dbVars, amVars, lblVars, axVars, other_data>>

\* r = a.average(b, weight)
DteAverage ==
    \E weight \in Numbers :
        LET r == dte_average(dte_data, other_data, weight)
        IN  /\ AverageIsWhole(dte_data, other_data, weight.k)
            /\ dte_data' = r.self
            /\ res' = [r EXCEPT !.self = <<>>]
            /\ last' = [op |-> "average", of |-> "average", a |-> dte_data, b |-> other_data]
            /\ UNCHANGED <<dbVars, amVars, lblVars, axVars, other_data>>

\* r[key] = NewMember, r being the object the last operator returned
ResSetItem ==
    \E key \in 0..MaxBatch :
        /\ last.op \in {"add", "sub", "mul", "div", "average"}
        /\ res.exc = ""
        /\ key < Len(res.data)
        /\ res' = [res EXCEPT !.data[key + 1] = NewMember]
        /\ dte_data' = IF res.shared THEN [dte_data EXCEPT ![key + 1] = NewMember]
                       ELSE dte_data
        /\ last' = [op |-> "setitem", of |-> last.op, a |-> dte_data, b |-> other_data]
        /\ UNCHANGED <<dbVars, amVars, lblVars, axVars, other_data>>

\* what an operator of DataBase leaves when applied to the member i of a: the members
\* of a, and what it returned
member_outcome(lst, i, r) ==
    [exc |-> r.exc, data |-> IF r.exc = "" THEN r.obj.data ELSE <<>>,
     shared |-> r.shared, self |-> [lst EXCEPT ![i] = r.self]]

\* r = a[i] + b[j], on the DataWithAxes of the two DataToExport
MemberAdd ==
    \E i \in 1..Len(dte_data), j \in 1..Len(other_data.data) :
        LET r == member_outcome(dte_data, i, db_add(dte_data[i], other_data.data[j]))
        IN  /\ dte_data' = r.self
            /\ res' = [r EXCEPT !.self = <<>>]
            /\ last' = [op |-> "db_add", of |-> "db_add", a |-> dte_data, b |-> other_data]
            /\ UNCHANGED <<dbVars, amVars, lblVars, axVars, other_data>>

\* r = a[i] - b[j]
MemberSub ==
    \E i \in 1..Len(dte_data), j \in 1..Len(other_data.data) :
        LET r == member_outcome(dte_data, i, db_sub(dte_data[i], other_data.data[j]))
        IN  /\ dte_data' = r.self
            /\ res' = [r EXCEPT !.self = <<>>]
            /\ last' = [op |-> "db_sub", of |-> "db_sub", a |-> dte_data, b |-> other_data]
            /\ UNCHANGED <<dbVars, amVars, lblVars, axVars, other_data>>

\* r = a[i] * k
MemberMul ==
    \E i \in 1..Len(dte_data), num \in Numbers \cup {NoNumber} :
        LET r == member_outcome(dte_data, i, db_mul(dte_data[i], num))
        IN  /\ dte_data' = r.self
            /\ res' = [r EXCEPT !.self = <<>>]
            /\ last' = [op |-> "db_mul", of |-> "db_mul", a |-> dte_data, b |-> other_data]
            /\ UNCHANGED <<dbVars, amVars, lblVars, axVars, other_data>>

\* r = a[i] / k
MemberDiv ==
    \E i \in 1..Len(dte_data), num \in Numbers \cup {NoNumber} :
        LET r == member_outcome(dte_data, i, db_truediv(dte_data[i], num))
        IN  /\ Divisible(<<dte_data[i]>>, num.k)
            /\ dte_data' = r.self
            /\ res' = [r EXCEPT !.self = <<>>]
            /\ last' = [op |-> "db_div", of |-> "db_div", a |-> dte_data, b |-> other_data]
            /\ UNCHANGED <<dbVars, amVars, lblVars, axVars, other_data>>

ArithNext ==
    \/ DteAdd
    \/ DteSub
    \/ DteMul
    \/ DteDiv
    \/ DteAverage
    \/ ResSetItem
    \/ MemberAdd
    \/ MemberSub
    \/ MemberMul
    \/ MemberDiv

(***************************************************************************)
(* Axis                                                                    *)
(***************************************************************************)
\* a number held by an axis: a value, None, or nan (the mean of no difference)
Num(v) == [kind |-> "num", v |-> v]
NoneNum == [kind |-> "None", v |-> 0]
NaN == [kind |-> "nan", v |-> 0]

\* np.diff(d)
Diff(d) == [i \in 1..(Len(d) - 1) |-> d[i + 1] - d[i]]

\* Axis.is_axis_linear: np.allclose(np.diff(data), np.mean(np.diff(data))), which
\* holds of an array of one value (no difference to compare)
is_axis_linear(hasdata, d) ==
    hasdata /\ \A i, j \in 1..(Len(d) - 1) : Diff(d)[i] = Diff(d)[j]

\* Axis(data=d, index=index, scaling=scaling, offset=offset): the data setter,
\* then get_scale_offset_from_data, which drops linear data
AxisCtor(hasdata, d, index, scaling, offset) ==
    IF is_axis_linear(hasdata, d)
    THEN [index |-> index, size |-> Len(d), hasdata |-> FALSE, data |-> <<>>,
          scaling |-> IF Len(d) > 1 THEN Num(d[2] - d[1]) ELSE NaN,
          offset |-> Num(d[1])]
    ELSE [index |-> index, size |-> IF hasdata THEN Len(d) ELSE 0,
          hasdata |-> hasdata, data |-> IF hasdata THEN d ELSE <<>>,
          scaling |-> scaling, offset |-> offset]

\* the size setter of Axis: honoured only when no explicit data is stored
axis_set_size(axis, n) == IF ~axis.hasdata THEN [axis EXCEPT !.size = n] ELSE axis

\* the index given to an Axis object
AxisIndexes == {0, 1}

\* the data given to an Axis object: linear data of size 2 and 3, and data of size 3
\* that is not linear
AxisData == {<<0, 1>>, <<5, 7, 9>>, <<0, 1, 3>>}

\* bound of the Axis model
MaxSize == 3      \* largest size assigned to an Axis

\* what a call returns: None, an array (or an object), or nothing when it raises
Returned(v) == [exc |-> "", isnone |-> FALSE, value |-> v]
ReturnedNone == [exc |-> "", isnone |-> TRUE, value |-> <<>>]
Raised(e) == [exc |-> e, isnone |-> FALSE, value |-> <<>>]

\* offset + scaling * np.linspace(0, nsteps - 1, nsteps)
LinearData(offset, scaling, nsteps) == [i \in 1..nsteps |-> offset.v + scaling.v * (i - 1)]

\* Axis.create_linear_data(nsteps): the exception raised ("" when none) and the axis
\* after it; the array is assigned through the data setter, and nothing is returned
create_linear_data(a, nsteps) ==
    IF a.offset.kind # "num" \/ a.scaling.kind # "num"
    THEN [exc |-> "TypeError", axis |-> a]
    ELSE [exc |-> "",
          axis |-> [a EXCEPT !.hasdata = TRUE,
                             !.data = LinearData(a.offset, a.scaling, nsteps),
                             !.size = nsteps]]

\* Axis.get_data(): what is returned and the axis after the call
get_data(a) ==
    IF a.hasdata
    THEN [ret |-> Returned(a.data), axis |-> a]
    ELSE LET c == create_linear_data(a, a.size)
         IN  [ret |-> IF c.exc = "" THEN ReturnedNone ELSE Raised(c.exc),
              axis |-> c.axis]

\* the scaling and offset given to an Axis built without data
AxisScalings == {NoneNum, Num(1), Num(2)}
AxisOffsets == {NoneNum, Num(0), Num(5)}

\* Axis(data=d, index=i) and Axis(index=i, scaling=s, offset=o)
AxisInputs ==
    {AxisCtor(TRUE, d, i, NoneNum, NoneNum) : d \in AxisData, i \in AxisIndexes}
    \cup {AxisCtor(FALSE, <<>>, i, s, o) : i \in {0}, s \in AxisScalings, o \in AxisOffsets}

\* an Axis right after construction
NewAxis ==
    /\ axis_obj \in AxisInputs
    /\ res = ReturnedNone
    /\ last = [op |-> "construct", pre |-> axis_obj]

\* Axis.size = n
AxisSetSize ==
    \E n \in 0..MaxSize :
        /\ axis_obj' = axis_set_size(axis_obj, n)
        /\ res' = ReturnedNone
        /\ last' = [op |-> "set_size", pre |-> axis_obj]
        /\ UNCHANGED <<dteVars, dbVars, amVars, lblVars, other_data>>

\* Axis.get_data()
AxisGetData ==
    /\ axis_obj' = get_data(axis_obj).axis
    /\ res' = get_data(axis_obj).ret
    /\ last' = [op |-> "get_data", pre |-> axis_obj]
    /\ UNCHANGED <<dteVars, dbVars, amVars, lblVars, other_data>>

\* Axis.create_linear_data(nsteps)
AxisCreateLinearData ==
    \E nsteps \in 0..MaxSize :
        LET c == create_linear_data(axis_obj, nsteps)
        IN  /\ axis_obj' = c.axis
            /\ res' = IF c.exc = "" THEN ReturnedNone ELSE Raised(c.exc)
            /\ last' = [op |-> "create_linear_data", pre |-> axis_obj]
            /\ UNCHANGED <<dteVars, dbVars, amVars, lblVars, other_data>>

AxisNext == AxisSetSize \/ AxisGetData \/ AxisCreateLinearData

(***************************************************************************)
(* AxesManager                                                             *)
(***************************************************************************)
\* bound of the AxesManager model
MaxAxes == 2      \* longest list of Axis objects passed to the manager

\* the shapes of the data the manager is built for
ManagerShapes == {<<2>>, <<2, 3>>}

\* the Axis objects passed to the manager
AxisObjects ==
    {AxisCtor(TRUE, d, i, NoneNum, NoneNum) : d \in AxisData, i \in AxisIndexes}

\* the lists of Axis objects passed to the manager: one axis at most per index, as
\* the manager assumes, in any order
AxisLists ==
    {l \in SeqUpTo(AxisObjects, MaxAxes) :
        \A i, j \in 1..Len(l) : i # j => l[i].index # l[j].index}

\* the tuples passed as nav_indexes and sig_indexes
IndexTuples == {<<>>, <<0>>, <<1>>, <<0, 1>>, <<1, 0>>, <<2>>}

\* something that is not iterable, passed where a tuple is expected
NotIterable == [iterable |-> FALSE, value |-> <<>>]
Iter(t) == [iterable |-> TRUE, value |-> t]

\* the increasing tuple of the elements of a set of numbers
RECURSIVE SortedSeq(_)
SortedSeq(S) == IF S = {} THEN <<>> ELSE <<Min(S)>> \o SortedSeq(S \ {Min(S)})

\* AxesManager.compute_sig_indexes
compute_sig_indexes(shp, nav) == SortedSeq((0..(Len(shp) - 1)) \ Range(nav))

\* AxesManager.get_axes_index
get_axes_index(axs) == {axs[i].index : i \in 1..Len(axs)}

\* AxesManager.get_shape_from_index raises IndexError: by its own test when the index
\* is beyond the number of dimensions, by the tuple when it is that number
shape_index_error(shp, index) == index > Len(shp) \/ index < 0 \/ index >= Len(shp)

\* the repair _check_axis makes of one axis
repair_axis(shp, axis) ==
    IF shp[axis.index + 1] # axis.size
    THEN [axis_set_size(axis, shp[axis.index + 1])
            EXCEPT !.scaling = Num(1), !.offset = Num(0)]
    ELSE axis

\* AxesManager._check_axis(axs): the exception raised ("" when none) and the list of
\* axes after it (the axes before the one that raised are repaired)
_check_axis(shp, axs) ==
    LET bad == {i \in 1..Len(axs) : shape_index_error(shp, axs[i].index)}
        stop == IF bad = {} THEN Len(axs) + 1 ELSE Min(bad)
    IN  [exc |-> IF bad = {} THEN "" ELSE "IndexError",
         axes |-> [i \in 1..Len(axs) |->
                     IF i < stop THEN repair_axis(shp, axs[i]) ELSE axs[i]]]

\* the sig_indexes setter: the new value of _sig_indexes
sig_setter(axs, nav, sig, v) ==
    IF v.iterable
    THEN IF \A i \in 1..Len(v.value) :
                v.value[i] \notin Range(nav) /\ v.value[i] \in get_axes_index(axs)
         THEN v.value
         ELSE sig
    ELSE sig

\* the test the nav_indexes setter makes of the value assigned
nav_valid(axs, v) ==
    v.iterable /\ \A i \in 1..Len(v.value) : v.value[i] \in get_axes_index(axs)

\* the nav_indexes setter: the new values of _nav_indexes and _sig_indexes
nav_setter(shp, axs, nav, sig, v) ==
    LET newnav == IF nav_valid(axs, v) THEN v.value ELSE nav
    IN  [nav |-> newnav,
         sig |-> sig_setter(axs, newnav, sig, Iter(compute_sig_indexes(shp, newnav)))]

\* AxesManager(data_shape, axes, nav_indexes, sig_indexes): the constructions that
\* raise nothing; nav_indexes and a given sig_indexes are stored as passed
AmCtor ==
    \E shp \in ManagerShapes, axs \in AxisLists,
       nav \in IndexTuples, sig \in {NotIterable} \cup {Iter(t) : t \in IndexTuples} :
        LET c == _check_axis(shp, axs)
        IN  /\ c.exc = ""
            /\ data_shape = shp
            /\ axes = c.axes
            /\ nav_indexes = nav
            /\ sig_indexes = IF sig.iterable THEN sig.value
                             ELSE compute_sig_indexes(shp, nav)
            /\ last = [op |-> "construct", exc |-> "", valid |-> TRUE,
                       nav |-> <<>>, sig |-> <<>>]

\* AxesManager.nav_indexes = v
SetNav ==
    \E v \in {NotIterable} \cup {Iter(t) : t \in IndexTuples} :
        LET r == nav_setter(data_shape, axes, nav_indexes, sig_indexes, v)
        IN  /\ nav_indexes' = r.nav
            /\ sig_indexes' = r.sig
            /\ last' = [op |-> "set_nav", exc |-> "", valid |-> nav_valid(axes, v),
                        nav |-> nav_indexes, sig |-> sig_indexes]
            /\ UNCHANGED <<data_shape, axes, dteVars, dbVars, lblVars, axVars, callVars>>

\* AxesManager.sig_indexes = v
SetSig ==
    \E v \in {NotIterable} \cup {Iter(t) : t \in IndexTuples} :
        /\ sig_indexes' = sig_setter(axes, nav_indexes, sig_indexes, v)
        /\ last' = [op |-> "set_sig", exc |-> "", valid |-> TRUE,
                    nav |-> <<>>, sig |-> <<>>]
        /\ UNCHANGED <<data_shape, axes, nav_indexes, dteVars, dbVars, lblVars, axVars,
                       callVars>>

\* AxesManager.axes = axs
SetAxes ==
    \E axs \in AxisLists :
        LET c == _check_axis(data_shape, axs)
        IN  /\ axes' = c.axes
            /\ last' = [op |-> "set_axes", exc |-> c.exc, valid |-> TRUE,
                        nav |-> <<>>, sig |-> <<>>]
            /\ UNCHANGED <<data_shape, nav_indexes, sig_indexes, dteVars, dbVars, lblVars,
                           axVars, callVars>>

\* AxesManager.append_axis(axis): the axis is appended, then _check_axis([axis])
\* stores the list it was given as the axes of the manager
AppendAxis ==
    \E axis \in AxisObjects :
        LET c == _check_axis(data_shape, <<axis>>)
        IN  /\ c.exc # "" => Len(axes) < MaxAxes
            /\ axes' = IF c.exc = "" THEN c.axes ELSE Append(axes, axis)
            /\ last' = [op |-> "append_axis", exc |-> c.exc, valid |-> TRUE,
                        nav |-> <<>>, sig |-> <<>>]
            /\ UNCHANGED <<data_shape, nav_indexes, sig_indexes, dteVars, dbVars, lblVars,
                           axVars, callVars>>

AmNext == SetNav \/ SetSig \/ SetAxes \/ AppendAxis

(***************************************************************************)
(* DataWithAxes                                                            *)
(***************************************************************************)
\* the data given to a DataWithAxes: one array of one or two dimensions, a list of
\* two arrays of different shapes, None
DwaDataInputs ==
    {[kind |-> "list", items |-> <<Arr(s)>>] : s \in {<<1>>, <<2>>, <<2, 3>>}}
    \cup {[kind |-> "list", items |-> <<Arr(<<2>>), Arr(<<1>>)>>],
          [kind |-> "None", items |-> <<>>]}

\* DataWithAxes.get_dim_from_data_axes: the new _dim
get_dim_from_data_axes(nav, olddim) == IF Len(nav) > 0 THEN "DataND" ELSE olddim

\* DataWithAxes(name, data=d, axes=axs, nav_indexes=nav): DataBase.__init__, then
\* AxesManager(data_shape=self.shape, axes=axs, nav_indexes=nav), then
\* get_dim_from_data_axes; the constructions that raise nothing
DwaCtor ==
    \E d \in DwaDataInputs, axs \in AxisLists, nav \in IndexTuples :
        LET r == data_setter(<<>>, <<>>, 0, 0, None, d)
            c == _check_axis(r.shape, axs)
        IN  /\ r.exc = ""
            /\ c.exc = ""
            /\ data = r.data
            /\ shape = r.shape
            /\ size = r.size
            /\ length = r.length
            /\ data_shape = r.shape
            /\ axes = c.axes
            /\ nav_indexes = nav
            /\ sig_indexes = compute_sig_indexes(r.shape, nav)
            /\ dim = get_dim_from_data_axes(nav, r.dim)
            /\ last = [op |-> "construct_dwa", exc |-> "", valid |-> TRUE,
                       nav |-> <<>>, sig |-> <<>>]

\* DataWithAxes.data = d: the data setter of DataBase
DwaSetData == SetDataIn(DwaDataInputs)

\* DataWithAxes.nav_indexes = v: the nav_indexes setter of the manager
DwaSetNav == SetNav

DwaNext == DwaSetData \/ DwaSetNav

(***************************************************************************)
(* Slicing of DataWithAxes                                                 *)
(***************************************************************************)
\* what a dimension is indexed with: an integer, a slice start:stop, Ellipsis, and
\* the full slice Ellipsis stands for
Idx(i) == [kind |-> "int", start |-> i, stop |-> i + 1]
Rng(a, b) == [kind |-> "slice", start |-> a, stop |-> b]
EllipsisItem == [kind |-> "ellipsis", start |-> 0, stop |-> 0]
FullSlice == [kind |-> "full", start |-> 0, stop |-> 0]

Smaller(a, b) == IF a < b THEN a ELSE b

\* DataWithAxes._compute_slices: the exception raised ("" when none) and the tuple
\* made, dimension after dimension from ind on
RECURSIVE compute_slices_from(_, _, _, _, _)
compute_slices_from(shp, indexes, ind, slices, total_slices) ==
    IF ind = Len(shp) THEN [exc |-> "", total |-> total_slices]
    ELSE IF ind \in Range(indexes)
    THEN IF slices = <<>> THEN [exc |-> "IndexError", total |-> total_slices]
         ELSE compute_slices_from(shp, indexes, ind + 1, Tail(slices),
                                  Append(total_slices, Head(slices)))
    ELSE IF Len(total_slices) = 0 \/ total_slices[Len(total_slices)] # EllipsisItem
    THEN compute_slices_from(shp, indexes, ind + 1, slices,
                             Append(total_slices, EllipsisItem))
    ELSE compute_slices_from(shp, indexes, ind + 1, slices, total_slices)

_compute_slices(shp, indexes, slices) == compute_slices_from(shp, indexes, 0, slices, <<>>)

\* what numpy indexes each dimension of an array of ndim dimensions with, given the
\* tuple total: Ellipsis stands for the full slices that complete the tuple
ExpandEllipsis(total, ndim) ==
    LET ell == {i \in 1..Len(total) : total[i] = EllipsisItem}
        given == Len(total) - Cardinality(ell)
        p == IF ell = {} THEN Len(total) + 1 ELSE Min(ell)
        fill == ndim - given
    IN  [d \in 1..ndim |->
            IF d < p THEN total[d]
            ELSE IF d < p + fill THEN FullSlice
            ELSE total[d - fill + Cardinality(ell)]]

\* the number of elements a dimension of n elements keeps
Kept(item, n) ==
    IF item.kind = "full" THEN n
    ELSE LET lo == Smaller(item.start, n)
             hi == Smaller(item.stop, n)
         IN  IF hi > lo THEN hi - lo ELSE 0

\* the elements a dimension of n elements is indexed with: one, or those from start
\* up to stop
Extent(item, n) ==
    IF item.kind = "int" THEN item
    ELSE IF item.kind = "full" THEN Rng(0, n)
    ELSE Rng(Smaller(item.start, n), Smaller(item.stop, n))

\* dat[total_slices]: the exception raised ("" when none), the shape of the array
\* obtained and the elements of each dimension of dat it holds
ndarray_getitem(shp, total) ==
    LET ell == {i \in 1..Len(total) : total[i] = EllipsisItem}
        sel == ExpandEllipsis(total, Len(shp))
        kept == {d \in 1..Len(shp) : sel[d].kind # "int"}
    IN  IF Cardinality(ell) > 1 \/ Len(total) - Cardinality(ell) > Len(shp)
        THEN [exc |-> "IndexError", shape |-> <<>>, sel |-> <<>>]
        ELSE IF \E d \in 1..Len(shp) : sel[d].kind = "int" /\ sel[d].start >= shp[d]
        THEN [exc |-> "IndexError", shape |-> <<>>, sel |-> <<>>]
        ELSE [exc |-> "",
              shape |-> [k \in 1..Cardinality(kept) |->
                            Kept(sel[SortedSeq(kept)[k]], shp[SortedSeq(kept)[k]])],
              sel |-> [d \in 1..Len(shp) |-> Extent(sel[d], shp[d])]]

\* np.atleast_1d(np.squeeze(a)): the shape without its dimensions of one element,
\* (1,) when none is left
squeeze_atleast_1d(shp) ==
    LET sq == SelectSeq(shp, LAMBDA n : n # 1)
    IN  IF sq = <<>> THEN <<1>> ELSE sq

\* an ndarray obtained from another one: its shape and the elements of each
\* dimension of the source it holds
SlicedArr(shp, sel) == [isarray |-> TRUE, shape |-> shp, sel |-> sel]

\* Axis._slicer(_slice): None for an integer, else a deep copy of the axis restricted
\* to the slice
axis_slicer(a, item) ==
    IF item.kind = "int" THEN [exc |-> "", isnone |-> TRUE, axis |-> a]
    ELSE IF a.hasdata
    THEN LET d == SubSeq(a.data, Smaller(item.start, Len(a.data)) + 1,
                         Smaller(item.stop, Len(a.data)))
         IN  [exc |-> "", isnone |-> FALSE,
              axis |-> [a EXCEPT !.data = d, !.size = Len(d)]]
    ELSE IF a.offset.kind # "num" \/ a.scaling.kind # "num"
    THEN [exc |-> "TypeError", isnone |-> FALSE, axis |-> a]
    ELSE [exc |-> "", isnone |-> FALSE,
          axis |-> [a EXCEPT !.offset = Num(a.offset.v + item.start * a.scaling.v),
                             !.size = item.stop - item.start]]

\* AxesManager._has_get_axis_from_index: the exception raised, whether the axis is
\* present, and the axis
_has_get_axis_from_index(shp, axs, index) ==
    LET hits == {i \in 1..Len(axs) : axs[i].index = index}
    IN  IF index > Len(shp) \/ index < 0
        THEN [exc |-> "IndexError", has |-> FALSE, axis |-> None]
        ELSE IF hits = {} THEN [exc |-> "", has |-> FALSE, axis |-> None]
        ELSE [exc |-> "", has |-> TRUE, axis |-> axs[Min(hits)]]

\* AxesManager.get_axis_from_index(index, create): a missing axis is None, or with
\* create an Axis built on np.zeros((1,)), of scaling nan, given linear data of the
\* size of the dimension
get_axis_from_index(shp, axs, index, create) ==
    LET g == _has_get_axis_from_index(shp, axs, index)
    IN  IF g.exc # "" \/ g.has \/ ~create THEN g
        ELSE IF index >= Len(shp) THEN [exc |-> "IndexError", has |-> FALSE, axis |-> None]
        ELSE [exc |-> "", has |-> TRUE,
              axis |-> [index |-> index, size |-> shp[index + 1], hasdata |-> TRUE,
                        data |-> [i \in 1..shp[index + 1] |-> NaN],
                        scaling |-> NaN, offset |-> Num(0)]]

\* AxesManager.get_nav_axes and get_signal_axes: copies of the axes of the indexes
get_axes_of(shp, axs, indexes) ==
    LET got == [i \in 1..Len(indexes) |-> get_axis_from_index(shp, axs, indexes[i], TRUE)]
        bad == {i \in 1..Len(indexes) : got[i].exc # ""}
    IN  [exc |-> IF bad = {} THEN "" ELSE got[Min(bad)].exc,
         axes |-> IF bad = {} THEN [i \in 1..Len(indexes) |-> got[i].axis] ELSE <<>>]

\* an index left as it is
KeepIndex(index, lower) == index

\* axis.index -= lower_indexes[axis.index]
lowered_index(index, lower) == index - lower

\* the name of the DataWithAxes
DwaName == "dwa"

\* what _slicer returns or raises
Sliced(d, shp, axs, nav, sig, dm) ==
    [exc |-> "", name |-> DwaName, data |-> d, shape |-> shp, axes |-> axs,
     nav_indexes |-> nav, sig_indexes |-> sig, dim |-> dm]
SlicerRaised(e) ==
    [exc |-> e, name |-> DwaName, data |-> <<>>, shape |-> <<>>, axes |-> <<>>,
     nav_indexes |-> <<>>, sig_indexes |-> <<>>, dim |-> None]

\* DataWithAxes(name, data=d, nav_indexes=nav, axes=axs, source='calculated') as
\* _slicer calls it
new_data_with_axes(d, axs, nav) ==
    LET r == data_setter(<<>>, <<>>, 0, 0, None, [kind |-> "list", items |-> d])
        c == _check_axis(r.shape, axs)
    IN  IF r.exc # "" THEN SlicerRaised(r.exc)
        ELSE IF c.exc # "" THEN SlicerRaised(c.exc)
        ELSE Sliced(r.data, r.shape, c.axes, nav, compute_sig_indexes(r.shape, nav),
                    get_dim_from_data_axes(nav, r.dim))

\* DataWithAxes._slicer(slices, is_navigation) on the object of data dat, shape shp,
\* axes axs, nav_indexes nav and sig_indexes sig
_slicer(dat, shp, axs, nav, sig, slices, is_navigation) ==
    LET t == _compute_slices(shp, IF is_navigation THEN nav ELSE sig, slices)
        got == [i \in 1..Len(dat) |-> ndarray_getitem(dat[i].shape, t.total)]
        new_arrays_data == [i \in 1..Len(dat) |->
                              SlicedArr(squeeze_atleast_1d(got[i].shape), got[i].sel)]
        appended == get_axes_of(shp, axs, IF is_navigation THEN sig ELSE nav)
        axes_to_append == appended.axes
        indexes_to_get == IF is_navigation THEN nav ELSE sig
        keys == 0..(Len(axs) - 1)
        \* one turn of the loop on slices: the exception it raises, the axis it
        \* keeps, the dimension it collapses
        turn(k) ==
            IF k > Len(indexes_to_get) THEN [exc |-> "IndexError", kept |-> FALSE]
            ELSE LET g == get_axis_from_index(shp, axs, indexes_to_get[k], FALSE)
                 IN  IF g.exc # "" THEN [exc |-> g.exc, kept |-> FALSE]
                     ELSE IF ~g.has THEN [exc |-> "AttributeError", kept |-> FALSE]
                     ELSE LET a == axis_slicer(g.axis, slices[k])
                          IN  IF a.exc # "" THEN [exc |-> a.exc, kept |-> FALSE]
                              ELSE IF ~a.isnone THEN [exc |-> "", kept |-> TRUE]
                              ELSE IF \E i \in 1..Len(axes_to_append) :
                                         /\ axes_to_append[i].index > indexes_to_get[k]
                                         /\ axes_to_append[i].index \notin keys
                              THEN [exc |-> "KeyError", kept |-> FALSE]
                              ELSE [exc |-> "", kept |-> FALSE]
        failed == {k \in 1..Len(slices) : turn(k).exc # ""}
        keptturns == SortedSeq({k \in 1..Len(slices) : turn(k).kept})
        collapsed == {k \in 1..Len(slices) : ~turn(k).kept}
        lower_indexes(index) ==
            Cardinality({k \in collapsed : index > indexes_to_get[k]})
        axes_kept == [j \in 1..Len(keptturns) |->
                    axis_slicer(get_axis_from_index(shp, axs,
                                    indexes_to_get[keptturns[j]], FALSE).axis,
                                slices[keptturns[j]]).axis]
        nav_indexes_new == IF is_navigation
                           THEN [j \in 1..Len(keptturns) |-> nav[keptturns[j]]]
                           ELSE nav
        lowered == [i \in 1..Len(axes_to_append) |->
                      [axes_to_append[i] EXCEPT
                          !.index = lowered_index(axes_to_append[i].index,
                                                  lower_indexes(axes_to_append[i].index))]]
    IN  IF t.exc # "" THEN SlicerRaised(t.exc)
        ELSE IF \E i \in 1..Len(dat) : got[i].exc # "" THEN SlicerRaised("IndexError")
        ELSE IF appended.exc # "" THEN SlicerRaised(appended.exc)
        ELSE IF failed # {} THEN SlicerRaised(turn(Min(failed)).exc)
        ELSE IF \E i \in 1..Len(axes_to_append) : axes_to_append[i].index \notin keys
        THEN SlicerRaised("KeyError")
        ELSE new_data_with_axes(new_arrays_data, axes_kept \o lowered, nav_indexes_new)

\* bound of the slicing model
MaxSlices == 2    \* longest tuple of slices

\* the shapes of the data sliced, and the slices applied
SliceShapes == {<<2>>, <<2, 3>>, <<2, 3, 2>>}
SliceItems == {Idx(0), Idx(1), Rng(1, 3)}
SliceTuples == UNION {[1..k -> SliceItems] : k \in 1..MaxSlices}

\* the Axis objects declared for a dimension of n elements
AxesOfSize(index, n) ==
    {AxisCtor(TRUE, d, index, NoneNum, NoneNum) : d \in {x \in AxisData : Len(x) = n}}

\* one Axis per dimension of the shape, in the order of the dimensions
AxesOfShape(shp) ==
    {l \in [1..Len(shp) -> UNION {AxesOfSize(i - 1, shp[i]) : i \in 1..Len(shp)}] :
        \A i \in 1..Len(shp) : l[i] \in AxesOfSize(i - 1, shp[i])}

\* DataWithAxes(name, data=[array] * k, axes=axs, nav_indexes=nav), one Axis
\* declared for each dimension, of one array or of the longest list
SlicedCtor ==
    \E shp \in SliceShapes, k \in {1, MaxArrays}, nav \in IndexTuples :
        \E axs \in AxesOfShape(shp) :
            LET r == data_setter(<<>>, <<>>, 0, 0, None,
                                 [kind |-> "list", items |-> UniformList(Arr(shp), k)])
                c == _check_axis(r.shape, axs)
            IN  /\ r.exc = ""
                /\ c.exc = ""
                /\ data = r.data
                /\ shape = r.shape
                /\ size = r.size
                /\ length = r.length
                /\ data_shape = r.shape
                /\ axes = c.axes
                /\ nav_indexes = nav
                /\ sig_indexes = compute_sig_indexes(r.shape, nav)
                /\ dim = get_dim_from_data_axes(nav, r.dim)
                /\ res = SlicerRaised("")
                /\ last = [op |-> "construct_dwa", slices |-> <<>>]

\* DataWithAxes.inav[slices]
Inav ==
    \E slices \in SliceTuples :
        /\ res' = _slicer(data, shape, axes, nav_indexes, sig_indexes, slices, TRUE)
        /\ last' = [op |-> "inav", slices |-> slices]
        /\ UNCHANGED <<dteVars, dbVars, amVars, lblVars, axVars, other_data>>

\* DataWithAxes.isig[slices]
Isig ==
    \E slices \in SliceTuples :
        /\ res' = _slicer(data, shape, axes, nav_indexes, sig_indexes, slices, FALSE)
        /\ last' = [op |-> "isig", slices |-> slices]
        /\ UNCHANGED <<dteVars, dbVars, amVars, lblVars, axVars, other_data>>

SliceNext == Inav \/ Isig

\* a DataWithAxes with one Axis per dimension, sliced
SliceInit == SlicedCtor /\ DteIdle /\ LblIdle /\ AxIdle /\ other_data = None
SpecSlice == SliceInit /\ [][SliceNext]_vars

(***************************************************************************)
(* Copies and transposition of DataWithAxes                                *)
(***************************************************************************)
\* the data given to deepcopy_with_new_data: None (the default), an empty list, a
\* list of arrays
NewDataArgs ==
    {[kind |-> "None", items |-> <<>>], [kind |-> "list", items |-> <<>>]}
    \cup {[kind |-> "list", items |-> <<Arr(s)>>] : s \in {<<2>>, <<3>>, <<2, 3>>}}

\* the remove_axes_index given: None (the default), an integer, a list of indexes
RemoveArgs ==
    {[kind |-> "None", value |-> <<>>], [kind |-> "int", value |-> <<0>>]}
    \cup {[kind |-> "list", value |-> t] : t \in {<<>>, <<0>>, <<1>>}}

\* a tuple without the first occurrence of an element
WithoutFirst(t, x) == RemoveAt(t, Min({i \in 1..Len(t) : t[i] = x}))

\* one turn of the loop on remove_axes_index: the exception raised ("" when none)
\* and the axes, nav_indexes and sig_indexes of the copy after it
remove_axis(shp, st, index) ==
    LET g == _has_get_axis_from_index(shp, st.axes, index)
        hits == {i \in 1..Len(st.axes) : st.axes[i] = g.axis}
        axs == RemoveAt(st.axes, Min(hits))
        n == IF index \in Range(st.nav)
             THEN nav_setter(shp, axs, st.nav, st.sig, Iter(WithoutFirst(st.nav, index)))
             ELSE [nav |-> st.nav, sig |-> st.sig]
        sg == IF index \in Range(n.sig)
              THEN sig_setter(axs, n.nav, n.sig, Iter(WithoutFirst(n.sig, index)))
              ELSE n.sig
    IN  IF g.exc # "" THEN [st EXCEPT !.exc = g.exc]
        ELSE IF ~g.has
        THEN [st EXCEPT !.exc = IF st.axes = <<>> THEN "ValueError" ELSE "AttributeError"]
        ELSE [exc |-> "", axes |-> axs, nav |-> n.nav, sig |-> sg]

\* the loop on remove_axes_index, stopped by the first exception
RECURSIVE remove_axes(_, _, _)
remove_axes(shp, st, indexes) ==
    IF indexes = <<>> \/ st.exc # "" THEN st
    ELSE remove_axes(shp, remove_axis(shp, st, Head(indexes)), Tail(indexes))

\* what deepcopy_with_new_data returns: None, or the copy
NoCopy == [isnone |-> TRUE, data |-> <<>>, shape |-> <<>>, size |-> 0, length |-> 0,
           dim |-> None, axes |-> <<>>, nav_indexes |-> <<>>, sig_indexes |-> <<>>]
Copy(d, shp, sz, len, dm, axs, nav, sig) ==
    [isnone |-> FALSE, data |-> d, shape |-> shp, size |-> sz, length |-> len,
     dim |-> dm, axes |-> axs, nav_indexes |-> nav, sig_indexes |-> sig]

\* DataWithAxes.deepcopy_with_new_data(d, rm): what it returns (any exception is
\* swallowed and None returned) and the _shape, _size and _length of the object it
\* is called on after it (get_dim_from_data is called on that object)
deepcopy_with_new_data(d, rm) ==
    LET st == remove_axes(data_shape,
                          [exc |-> IF rm.kind = "None" THEN "TypeError" ELSE "",
                           axes |-> axes, nav |-> nav_indexes, sig |-> sig_indexes],
                          rm.value)
        unchanged == [shape |-> shape, size |-> size, length |-> length]
    IN  IF st.exc # "" THEN [ret |-> NoCopy, self |-> unchanged]
        ELSE IF d.kind = "None" \/ d.items = <<>> THEN [ret |-> NoCopy, self |-> unchanged]
        ELSE [ret |-> Copy(d.items, d.items[1].shape, size, length,
                           get_dim_from_data(d.items[1].shape), st.axes, st.nav, st.sig),
              self |-> [shape |-> d.items[1].shape, size |-> Prod(d.items[1].shape),
                        length |-> Len(d.items)]]

\* what the object holds, as the properties read it
Held == [data |-> data, shape |-> shape, size |-> size, length |-> length, dim |-> dim,
         axes |-> axes, nav_indexes |-> nav_indexes, sig_indexes |-> sig_indexes]

\* DataWithAxes.deepcopy_with_new_data(d, rm)
DeepcopyWithNewData ==
    \E d \in NewDataArgs, rm \in RemoveArgs :
        LET r == deepcopy_with_new_data(d, rm)
        IN  /\ shape' = r.self.shape
            /\ size' = r.self.size
            /\ length' = r.self.length
            /\ res' = r.ret
            /\ last' = [op |-> "deepcopy_with_new_data", d |-> d, rm |-> rm, pre |-> Held]
            /\ UNCHANGED <<data, dim, dteVars, amVars, lblVars, axVars, other_data>>

\* the transpose of an array of two dimensions
Transposed(a) ==
    IF "T" \in DOMAIN a THEN Arr(<<a.shape[2], a.shape[1]>>)
    ELSE [isarray |-> TRUE, shape |-> <<a.shape[2], a.shape[1]>>, T |-> TRUE]

\* DataWithAxes.transpose(): for Data2D each array is replaced by its transpose and
\* each axis gets the index 0 if it had 1, else 1
Transpose ==
    /\ data' = IF dim = "Data2D" THEN [i \in 1..Len(data) |-> Transposed(data[i])] ELSE data
    /\ axes' = IF dim = "Data2D"
               THEN [i \in 1..Len(axes) |->
                       [axes[i] EXCEPT !.index = IF axes[i].index = 1 THEN 0 ELSE 1]]
               ELSE axes
    /\ last' = [op |-> "transpose", d |-> None, rm |-> None, pre |-> Held]
    /\ UNCHANGED <<shape, size, length, dim, data_shape, nav_indexes, sig_indexes,
                   dteVars, lblVars, axVars, callVars>>

OpsNext == DeepcopyWithNewData \/ Transpose

\* a DataWithAxes, copied with new data and transposed
OpsInit == DwaCtor /\ DteIdle /\ LblIdle /\ AxIdle /\ CallIdle
SpecOps == OpsInit /\ [][OpsNext]_vars

(***************************************************************************)
(* Reading an AxesManager                                                  *)
(***************************************************************************)
\* AxesManager.compute_shape_from_axes: the exception raised ("" when none) and the
\* tuple made, one entry per axis held when there are axes
compute_shape_from_axes(shp, axs) ==
    LET g(ind) == get_axis_from_index(shp, axs, ind, TRUE)
        bad == {ind \in 0..(Len(axs) - 1) : g(ind).exc # ""}
    IN  IF Len(axs) = 0 THEN [exc |-> "", shape |-> shp]
        ELSE IF bad # {} THEN [exc |-> g(Min(bad)).exc, shape |-> shp]
        ELSE [exc |-> "", shape |-> [i \in 1..Len(axs) |-> g(i - 1).axis.size]]

\* tuple([self.shape[ind] for ind in indexes]): the exception raised, the tuple made
\* and the _data_shape left by the reads of the shape property
RECURSIVE shape_at(_, _, _, _)
shape_at(shp, axs, indexes, acc) ==
    IF indexes = <<>> THEN [exc |-> "", ret |-> acc, data_shape |-> shp]
    ELSE LET c == compute_shape_from_axes(shp, axs)
         IN  IF c.exc # "" THEN [exc |-> c.exc, ret |-> <<>>, data_shape |-> shp]
             ELSE IF Head(indexes) >= Len(c.shape)
             THEN [exc |-> "IndexError", ret |-> <<>>, data_shape |-> c.shape]
             ELSE shape_at(c.shape, axs, Tail(indexes),
                           Append(acc, c.shape[Head(indexes) + 1]))

\* AxesManager.shape
ReadShape ==
    LET c == compute_shape_from_axes(data_shape, axes)
    IN  /\ data_shape' = c.shape
        /\ res' = c.shape
        /\ last' = [op |-> "shape", exc |-> c.exc, pre |-> data_shape, axis |-> None]
        /\ UNCHANGED <<axes, nav_indexes, sig_indexes, dteVars, dbVars, lblVars, axVars,
                       other_data>>

\* AxesManager.nav_shape
ReadNavShape ==
    LET r == shape_at(data_shape, axes, nav_indexes, <<>>)
    IN  /\ data_shape' = r.data_shape
        /\ res' = r.ret
        /\ last' = [op |-> "nav_shape", exc |-> r.exc, pre |-> data_shape, axis |-> None]
        /\ UNCHANGED <<axes, nav_indexes, sig_indexes, dteVars, dbVars, lblVars, axVars,
                       other_data>>

\* AxesManager.sig_shape
ReadSigShape ==
    LET r == shape_at(data_shape, axes, sig_indexes, <<>>)
    IN  /\ data_shape' = r.data_shape
        /\ res' = r.ret
        /\ last' = [op |-> "sig_shape", exc |-> r.exc, pre |-> data_shape, axis |-> None]
        /\ UNCHANGED <<axes, nav_indexes, sig_indexes, dteVars, dbVars, lblVars, axVars,
                       other_data>>

\* AxesManager.is_axis_signal(axis), for an axis of the manager
IsAxisSignal ==
    \E i \in 1..Len(axes) :
        /\ res' = (axes[i].index \in Range(nav_indexes))
        /\ last' = [op |-> "is_axis_signal", exc |-> "", pre |-> data_shape,
                    axis |-> axes[i]]
        /\ UNCHANGED <<amVars, dteVars, dbVars, lblVars, axVars, other_data>>

\* AxesManager.is_axis_navigation(axis), for an axis of the manager
IsAxisNavigation ==
    \E i \in 1..Len(axes) :
        /\ res' = (axes[i].index \notin Range(nav_indexes))
        /\ last' = [op |-> "is_axis_navigation", exc |-> "", pre |-> data_shape,
                    axis |-> axes[i]]
        /\ UNCHANGED <<amVars, dteVars, dbVars, lblVars, axVars, other_data>>

ReadNext == ReadShape \/ ReadNavShape \/ ReadSigShape \/ IsAxisSignal \/ IsAxisNavigation

\* an AxesManager, read
ReadInit == AmCtor /\ DteIdle /\ DbIdle /\ LblIdle /\ AxIdle /\ CallIdle
SpecRead == ReadInit /\ [][ReadNext]_vars

(***************************************************************************)
(* Reading an Axis                                                         *)
(***************************************************************************)
Largest(S) == CHOOSE x \in S : \A y \in S : y <= x

\* Axis.min(): np.min of the data, or offset + (size * scaling if scaling < 0 else 0)
axis_min(a) ==
    IF a.hasdata
    THEN IF a.data = <<>> THEN Raised("ValueError") ELSE Returned(Min(Range(a.data)))
    ELSE IF a.scaling.kind = "None" \/ a.offset.kind = "None" THEN Raised("TypeError")
    ELSE IF a.scaling.kind = "nan" \/ a.offset.kind = "nan" THEN Returned(a.offset)
    ELSE Returned(a.offset.v + (IF a.scaling.v < 0 THEN a.size * a.scaling.v ELSE 0))

\* Axis.max(): np.max of the data, or offset + (size * scaling if scaling > 0 else 0)
axis_max(a) ==
    IF a.hasdata
    THEN IF a.data = <<>> THEN Raised("ValueError") ELSE Returned(Largest(Range(a.data)))
    ELSE IF a.scaling.kind = "None" \/ a.offset.kind = "None" THEN Raised("TypeError")
    ELSE IF a.scaling.kind = "nan" \/ a.offset.kind = "nan" THEN Returned(a.offset)
    ELSE Returned(a.offset.v + (IF a.scaling.v > 0 THEN a.size * a.scaling.v ELSE 0))

\* the Axis objects read: those of AxisInputs, and axes whose values decrease
ReadAxisInputs ==
    AxisInputs \cup {AxisCtor(TRUE, <<9, 7, 5>>, 0, NoneNum, NoneNum),
                     AxisCtor(FALSE, <<>>, 0, Num(0 - 1), Num(0))}

\* the slices applied to an Axis: an integer, and start:stop with stop possibly
\* beyond the size of the axis
AxisSlices == {Idx(0)} \cup {Rng(a, b) : a \in 0..MaxSize, b \in 0..(MaxSize + 1)}

\* an Axis right after construction, to be read
AxisToRead ==
    /\ axis_obj \in ReadAxisInputs
    /\ res = ReturnedNone
    /\ last = [op |-> "construct", pre |-> axis_obj, item |-> None]

\* Axis.size = n
AxisResize ==
    \E n \in 0..MaxSize :
        /\ axis_obj' = axis_set_size(axis_obj, n)
        /\ res' = ReturnedNone
        /\ last' = [op |-> "set_size", pre |-> axis_obj, item |-> None]
        /\ UNCHANGED <<dteVars, dbVars, amVars, lblVars, other_data>>

\* Axis.min()
AxisMin ==
    /\ res' = axis_min(axis_obj)
    /\ last' = [op |-> "min", pre |-> axis_obj, item |-> None]
    /\ UNCHANGED <<axis_obj, dteVars, dbVars, amVars, lblVars, other_data>>

\* Axis.max()
AxisMax ==
    /\ res' = axis_max(axis_obj)
    /\ last' = [op |-> "max", pre |-> axis_obj, item |-> None]
    /\ UNCHANGED <<axis_obj, dteVars, dbVars, amVars, lblVars, other_data>>

\* Axis._slicer(_slice), as axis.iaxis[_slice] calls it
AxisSlice ==
    \E item \in AxisSlices :
        /\ item.start <= item.stop
        /\ res' = axis_slicer(axis_obj, item)
        /\ last' = [op |-> "slice", pre |-> axis_obj, item |-> item]
        /\ UNCHANGED <<axis_obj, dteVars, dbVars, amVars, lblVars, other_data>>

AxisReadNext == AxisResize \/ AxisMin \/ AxisMax \/ AxisSlice

\* an Axis, resized, read and sliced
AxisReadInit == AxisToRead /\ DteIdle /\ DbIdle /\ AmIdle /\ LblIdle /\ other_data = None
SpecAxisRead == AxisReadInit /\ [][AxisReadNext]_vars

\* a DataToExport built empty, then appended to
DteInit == DteCtor /\ DbIdle /\ AmIdle /\ LblIdle /\ AxIdle /\ CallIdle
SpecDTE == DteInit /\ [][DteNext]_vars

\* a DataBase, its data assigned and its items set
DbInit == DbCtor /\ DteIdle /\ AmIdle /\ LblIdle /\ AxIdle /\ CallIdle
SpecDB == DbInit /\ [][DbNext]_vars

\* a DataWithAxes, its data and its nav_indexes assigned
DwaInit == DwaCtor /\ DteIdle /\ LblIdle /\ AxIdle /\ CallIdle
SpecDWA == DwaInit /\ [][DwaNext]_vars

\* an AxesManager, its nav_indexes, sig_indexes and axes assigned
AmInit == AmCtor /\ DteIdle /\ DbIdle /\ LblIdle /\ AxIdle /\ CallIdle
SpecAM == AmInit /\ [][AmNext]_vars

\* DataBase objects built one after the other
CtorInit == NoDataBase /\ DteIdle /\ AmIdle /\ AxIdle /\ CallIdle
SpecCtor == CtorInit /\ [][CtorNext]_vars

\* an Axis, its size assigned and its data read
AxisInit == NewAxis /\ DteIdle /\ DbIdle /\ AmIdle /\ LblIdle /\ other_data = None
SpecAxis == AxisInit /\ [][AxisNext]_vars

\* a DataToExport built empty, appended to and looked up
LookupInit == DteCtor /\ DbIdle /\ AmIdle /\ LblIdle /\ AxIdle /\ CallIdle
SpecLookup == LookupInit /\ [][LookupNext]_vars

\* two DataToExport and the operators applied to them
ArithInit == Operands /\ DbIdle /\ AmIdle /\ LblIdle /\ AxIdle
SpecArith == ArithInit /\ [][ArithNext]_vars

(***************************************************************************)
(* Properties of DataToExport.append                                       *)
(***************************************************************************)
AppendOps == {"append", "append_list", "append_dte"}

SameKey(m, x) == m.name = x.name /\ m.origin = x.origin

\* C1: when x is appended to a DataToExport holding a member m with the name and
\* the origin of x, m is the member removed, the other members keep their order,
\* (a copy of) x is the last member and the length is unchanged.
C1_AppendReplacesSameKey ==
    (last.op = "append" /\ \E i \in 1..Len(last.pre) : SameKey(last.pre[i], last.x))
    => /\ Len(dte_data) = Len(last.pre)
       /\ \E i \in 1..Len(last.pre) :
            /\ SameKey(last.pre[i], last.x)
            /\ dte_data = Append(RemoveAt(last.pre, i), last.x)

\* C2: from an empty DataToExport, after any sequence of append calls no two
\* members have the same (name, origin) pair.
C2_UniqueNameOrigin ==
    \A i, j \in 1..Len(dte_data) : i # j => ~SameKey(dte_data[i], dte_data[j])

\* C3: after append no member has origin None.
C3_NoOriginNone ==
    last.op \in AppendOps => \A i \in 1..Len(dte_data) : dte_data[i].origin # None

(***************************************************************************)
(* Properties of DataBase                                                  *)
(***************************************************************************)
\* C4: in every reachable state of a DataBase every array of data has the shape
\* given by the shape attribute and length is the number of arrays; assigning a
\* list whose arrays differ in shape fails with DataShapeError.
C4_ShapeInvariant ==
    /\ \A i \in 1..Len(data) : data[i].shape = shape
    /\ length = Len(data)
    /\ (last.op = "set_data" /\ last.mixed) => last.exc = "DataShapeError"

\* the dimensionality the specification gives to arrays of shape s
SpecDim(s) ==
    IF Len(s) = 1 /\ s[1] = 1 THEN "Data0D"
    ELSE IF Len(s) = 1 /\ s[1] > 1 THEN "Data1D"
    ELSE IF Len(s) = 2 THEN "Data2D"
    ELSE "DataND"

DimIndexes(shp) == 0..(Len(shp) - 1)

\* C5: in every reachable state of an AxesManager nav_indexes and sig_indexes have
\* no index in common and each of their indexes is a dimension index of data_shape.
C5_NavSigPartition ==
    /\ Range(nav_indexes) \cap Range(sig_indexes) = {}
    /\ Range(nav_indexes) \cup Range(sig_indexes) \subseteq DimIndexes(data_shape)

\* C6: a rejected assignment to nav_indexes (a value that is not iterable or that
\* holds an index no axis is declared for) leaves nav_indexes and sig_indexes
\* exactly as they were.
C6_RejectedNavChangesNothing ==
    (last.op = "set_nav" /\ ~last.valid)
    => (nav_indexes = last.nav /\ sig_indexes = last.sig)

\* C7: after an accepted assignment to nav_indexes, sig_indexes is the increasing
\* tuple of the dimension indexes of data_shape that are not in nav_indexes.
C7_SigIsComplementOfNav ==
    (last.op = "set_nav" /\ last.valid)
    => sig_indexes = SortedSeq(DimIndexes(data_shape) \ Range(nav_indexes))

\* C8: after an AxesManager is constructed or its axes are assigned, every axis
\* it holds, compact or with explicit data, has the size of its dimension.
C8_AxisSizeMatchesShape ==
    (last.op \in {"construct", "set_axes"} /\ last.exc = "")
    => \A i \in 1..Len(axes) : axes[i].size = data_shape[axes[i].index + 1]

(***************************************************************************)
(* Properties of DataWithAxes                                              *)
(***************************************************************************)
\* C9: in every reachable state of a DataWithAxes a non-empty nav_indexes implies
\* dim = DataND, whatever the shape of the arrays.
C9_NavImpliesDataND == Len(nav_indexes) > 0 => dim = "DataND"

(***************************************************************************)
(* Properties of the construction of a DataBase                            *)
(***************************************************************************)
\* the labels 'CHkk' of the positions from up to to - 1
RECURSIVE ChannelLabels(_, _)
ChannelLabels(from, to) ==
    IF from >= to THEN <<>> ELSE <<ChannelLabel(from)>> \o ChannelLabels(from + 1, to)

\* the labels the caller supplied to the last construction
Supplied == IF last.lab.passed THEN last.lab.value ELSE <<>>

\* C15: a DataBase constructed with fewer labels than arrays has one label per
\* array, the supplied labels followed by 'CHkk' for each missing position kk; one
\* built with one array and no labels argument has labels ['CH00'], whatever was
\* constructed before.
C15_LabelsCompleted ==
    (last.op = "construct" /\ last.exc = "" /\ Len(Supplied) < length)
    => /\ Len(labels) = length
       /\ labels = Supplied \o ChannelLabels(Len(Supplied), length)

\* C18: construction accepts a bare ndarray, wrapped into a list of one element, and
\* a bare number, wrapped into a list holding an array of one element; it rejects
\* with TypeError None, an empty list, a list whose first element is no ndarray or
\* is an array of no dimension, and any other type.
C18_ConstructionValidatesData ==
    last.op = "construct" =>
        LET d == last.d
        IN  /\ (d.kind = "ndarray" /\ Len(d.items[1].shape) > 0)
                => (last.exc = "" /\ data = d.items)
            /\ d.kind = "number" => (last.exc = "" /\ data = <<Arr(<<1>>)>>)
            /\ d.kind \in {"None", "other"} => last.exc = "TypeError"
            /\ (d.kind = "list" /\ d.items = <<>>) => last.exc = "TypeError"
            /\ (d.kind = "list" /\ d.items # <<>> /\ ~d.items[1].isarray)
                => last.exc = "TypeError"
            /\ (d.kind = "list" /\ d.items # <<>> /\ d.items[1].isarray
                    /\ Len(d.items[1].shape) = 0)
                => last.exc = "TypeError"

(***************************************************************************)
(* Properties of Axis                                                      *)
(***************************************************************************)
\* C14: get_data() of an Axis in compact form returns offset + scaling * i for i in
\* 0..size-1 and leaves data None and offset, scaling and size as they were;
\* get_data() of an Axis with explicit data returns the stored array.
C14_GetDataMaterializesLazily ==
    last.op = "get_data" =>
        LET a == last.pre
        IN  /\ a.hasdata => res = Returned(a.data)
            /\ (~a.hasdata /\ a.offset.kind = "num" /\ a.scaling.kind = "num")
                => /\ res = Returned([i \in 1..a.size |-> a.offset.v + a.scaling.v * (i - 1)])
                   /\ axis_obj = a

(***************************************************************************)
(* Properties of the lookups of DataToExport                               *)
(***************************************************************************)
LookupOps == {"get_data_from_name_origin", "get_data_from_dim", "get_data_from_dims",
              "get_names", "get_full_names"}

\* C17: a lookup of DataToExport (get_data_from_name_origin, get_data_from_dim,
\* get_data_from_dims, get_names, get_full_names) changes nothing: the member list,
\* its order and every attribute of every member, origin included, are as before.
C17_LookupsChangeNothing == last.op \in LookupOps => dte_data = last.pre

(***************************************************************************)
(* Properties of the arithmetic of DataBase and DataToExport               *)
(***************************************************************************)
\* C11: the result of DataToExport.average(other, weight) is not aliased with its
\* operands: after r = a.average(b, w) the members of a and their payloads are as
\* before the call, and replacing a member of r does not change a.
C11_AverageNotAliased ==
    /\ (last.op = "average" /\ res.exc = "") => dte_data = last.a
    /\ (last.op = "setitem" /\ last.of = "average") => dte_data = last.a

DteOperators == {"add", "sub", "mul", "div"}
DataBaseOperators == {"db_add", "db_sub", "db_mul", "db_div"}

\* C12: +, -, * and / on DataBase and on DataToExport never change their operands
\* (same length, same members, same payload values after the operation), and the
\* result is a new object whose payload list is shared with neither operand:
\* assigning to an item of the result leaves the operands as they were.
C12_OperatorsLeaveOperands ==
    /\ last.op \in DteOperators \cup DataBaseOperators
        => /\ dte_data = last.a
           /\ other_data = last.b
           /\ res.exc = "" => ~res.shared
    /\ (last.op = "setitem" /\ last.of \in DteOperators)
        => (dte_data = last.a /\ other_data = last.b)

\* an item of the result of an operator was replaced, the result was not empty and
\* the operand holds other members than the result
C12_Witness ==
    /\ last.op = "setitem"
    /\ last.of \in DteOperators
    /\ Len(dte_data) > 0
    /\ res.data # dte_data

\* the DataBase x with each array of values v replaced by one of values v (+|-) w, w
\* the values of the array of y at the same position
Combined(x, y, sign) ==
    [x EXCEPT !.data = [j \in 1..Len(x.data) |->
        ValArr(x.data[j].shape, x.data[j].v + sign * y.data[j].v)]]

\* the members of same position of a and b can be added: as many arrays, of the same
\* shapes
Compatible(lst, b) ==
    \A i \in 1..Len(lst) :
        /\ Len(lst[i].data) = Len(b[i].data)
        /\ \A j \in 1..Len(lst[i].data) : lst[i].data[j].shape = b[i].data[j].shape

\* C13: for DataToExport a and b of equal length n, a + b and a - b have length n
\* and their member at position i is a[i] + b[i] (a[i] - b[i]), whatever the names
\* of the members; when b is not a DataToExport or the lengths differ the operation
\* fails with an error and neither operand is changed.
C13_AddSubPairByPosition ==
    last.op \in {"add", "sub"} =>
        IF last.b.isdte /\ Len(last.b.data) = Len(last.a)
        THEN /\ Compatible(last.a, last.b.data) => res.exc = ""
             /\ res.exc = "" =>
                  /\ Len(res.data) = Len(last.a)
                  /\ \A i \in 1..Len(last.a) :
                       res.data[i] = Combined(last.a[i], last.b.data[i],
                                              IF last.op = "add" THEN 1 ELSE -1)
        ELSE /\ res.exc # ""
             /\ dte_data = last.a
             /\ other_data = last.b

\* two DataToExport of two members or more were added, members of different names
\* facing each other
C13_Witness ==
    /\ last.op = "add"
    /\ res.exc = ""
    /\ Len(res.data) >= 2
    /\ \E i \in 1..Len(last.a) : last.a[i].name # last.b.data[i].name

(***************************************************************************)
(* Properties of DataWithAxes slicing                                      *)
(***************************************************************************)
Slicings == {"inav", "isig"}

\* the dimensions the slices of the last call are applied to
Targeted == IF last.op = "inav" THEN nav_indexes ELSE sig_indexes

\* row i of an array of two dimensions
Row(i) == SlicedArr(<<shape[2]>>, <<Idx(i), Rng(0, shape[2])>>)

\* DataBase.__eq__ between two objects given by name and arrays
database_eq(a, b) ==
    /\ a.name = b.name
    /\ Len(a.data) = Len(b.data)
    /\ \A k \in 1..Len(a.data) :
          a.data[k].shape = b.data[k].shape /\ a.data[k].sel = b.data[k].sel

\* the axis declared for a dimension
AxisOfDim(d) == axes[Min({i \in 1..Len(axes) : axes[i].index = d})]

\* inav[i] is called on data of two dimensions whose navigation dimension is the first
RowTaken ==
    /\ last.op = "inav"
    /\ Len(shape) = 2
    /\ nav_indexes = <<0>>
    /\ Len(last.slices) = 1
    /\ last.slices[1].kind = "int"
    /\ last.slices[1].start < shape[1]

\* C16: for data of two dimensions with nav_indexes (0,) and one axis declared per
\* dimension, inav[i] with 0 <= i < shape[0] returns a DataWithAxes of the same
\* name whose every array is row i of the source array, with empty nav_indexes and
\* one axis of index 0 that is the signal axis of the source; it equals a
\* DataWithAxes of that name holding those rows
C16_InavTakesRow ==
    RowTaken =>
        /\ res.exc = ""
        /\ res.name = DwaName
        /\ res.data = [k \in 1..Len(data) |-> Row(last.slices[1].start)]
        /\ res.nav_indexes = <<>>
        /\ Len(res.axes) = 1
        /\ res.axes[1] = [AxisOfDim(1) EXCEPT !.index = 0]
        /\ database_eq(res, [name |-> DwaName,
                             data |-> [k \in 1..Len(data) |-> Row(last.slices[1].start)]])

C16_Witness ==
    /\ RowTaken
    /\ last.slices[1].start = 1
    /\ Len(data) = 2
    /\ res.exc = ""
    /\ res.axes[1].hasdata

\* the slices of the last call suit the data: navigation dimensions in increasing
\* order, one slice per targeted dimension, every integer an element of its
\* dimension, every range at least two elements of its dimension
SlicesSuit ==
    /\ last.op \in Slicings
    /\ \A i \in 1..Len(nav_indexes) :
          /\ nav_indexes[i] < Len(shape)
          /\ \A j \in 1..Len(nav_indexes) : i < j => nav_indexes[i] < nav_indexes[j]
    /\ Len(last.slices) = Len(Targeted)
    /\ \A k \in 1..Len(last.slices) :
          IF last.slices[k].kind = "int"
          THEN last.slices[k].start < shape[Targeted[k] + 1]
          ELSE /\ last.slices[k].stop <= shape[Targeted[k] + 1]
               /\ last.slices[k].stop - last.slices[k].start >= 2

\* the dimensions the last call collapses, and the position in the result of a
\* dimension it keeps
Collapsed == {Targeted[k] : k \in {j \in 1..Len(last.slices) : last.slices[j].kind = "int"}}
Position(d) == d - Cardinality({c \in Collapsed : c < d})

\* the dimensions the last call slices by a range, in the order of the slices, then
\* the dimensions it leaves whole
SlicedDims ==
    LET ks == SortedSeq({k \in 1..Len(last.slices) : last.slices[k].kind # "int"})
    IN  [j \in 1..Len(ks) |-> Targeted[ks[j]]]
WholeDims == IF last.op = "inav" THEN sig_indexes ELSE nav_indexes

\* C19: when slicing data with one axis declared per dimension collapses a
\* dimension, the result has no axis for it and every other axis, those sliced by a
\* range in the same call included, has its index lowered by one for each collapsed
\* lower dimension; the axis indexes of the result are pairwise distinct and smaller
\* than the number of dimensions of the result
C19_AxesRenumbered ==
    (SlicesSuit /\ Collapsed # {}) =>
        /\ res.exc = ""
        /\ [j \in 1..Len(res.axes) |-> res.axes[j].index]
             = [j \in 1..Len(SlicedDims \o WholeDims) |-> Position((SlicedDims \o WholeDims)[j])]
        /\ \A i, j \in 1..Len(res.axes) : i # j => res.axes[i].index # res.axes[j].index
        /\ \A j \in 1..Len(res.axes) : res.axes[j].index < Len(res.shape)

\* the navigation dimensions the last call keeps, in their order
NavKept == SelectSeq(nav_indexes, LAMBDA d : d \notin Collapsed)

\* C20: for inav and isig, the nav_indexes of the DataWithAxes returned are the
\* positions in the result of the navigation dimensions of the source that were not
\* collapsed; every nav index of the result is a dimension of its arrays
C20_NavIndexesRenumbered ==
    (SlicesSuit /\ res.exc = "") =>
        /\ res.nav_indexes = [j \in 1..Len(NavKept) |-> Position(NavKept[j])]
        /\ \A j \in 1..Len(res.nav_indexes) : res.nav_indexes[j] < Len(res.shape)

\* one slice is given per targeted dimension, the navigation dimensions are distinct
\* dimensions of the data in any order, every integer is an element of its dimension
SlicesGiven ==
    /\ last.op \in Slicings
    /\ \A i \in 1..Len(nav_indexes) :
          /\ nav_indexes[i] < Len(shape)
          /\ \A j \in 1..Len(nav_indexes) : i # j => nav_indexes[i] # nav_indexes[j]
    /\ Len(last.slices) = Len(Targeted)
    /\ \A k \in 1..Len(last.slices) :
          last.slices[k].kind = "int" => last.slices[k].start < shape[Targeted[k] + 1]

\* C21: the k-th slice is applied to the dimension nav_indexes[k] (sig_indexes[k]
\* for isig) of the arrays, the dimension of the axis it is applied to, whatever the
\* order of nav_indexes and the position of the targeted dimension; the index built
\* by _compute_slices has one entry per targeted dimension and indexes the arrays
C21_SliceAppliedToItsDimension ==
    SlicesGiven =>
        LET t == _compute_slices(shape, Targeted, last.slices)
            g == ndarray_getitem(shape, t.total)
        IN  /\ t.exc = ""
            /\ Cardinality({i \in 1..Len(t.total) : t.total[i] # EllipsisItem}) = Len(Targeted)
            /\ g.exc = ""
            /\ \A k \in 1..Len(last.slices) :
                  g.sel[Targeted[k] + 1] = Extent(last.slices[k], shape[Targeted[k] + 1])

(***************************************************************************)
(* Properties of deepcopy_with_new_data and transpose                      *)
(***************************************************************************)
\* C22: deepcopy_with_new_data leaves the object it is called on unchanged, whether
\* it returns a copy or fails: its data, shape, size, length, dim, axes, nav_indexes
\* and sig_indexes are as before the call
C22_CopyLeavesSource ==
    last.op = "deepcopy_with_new_data" => Held = last.pre

\* C23: deepcopy_with_new_data(data) with a list of arrays and no remove_axes_index
\* returns a DataWithAxes, not None, holding data, of the shape of data[0], with the
\* axes and the nav_indexes of the source
C23_CopyWithoutRemoval ==
    (/\ last.op = "deepcopy_with_new_data"
     /\ last.rm.kind = "None"
     /\ last.d.kind = "list"
     /\ last.d.items # <<>>) =>
        /\ ~res.isnone
        /\ res.data = last.d.items
        /\ res.shape = last.d.items[1].shape
        /\ res.axes = last.pre.axes
        /\ res.nav_indexes = last.pre.nav_indexes

\* C24: after transpose() on Data2D of shape (m, n) every array is the transpose of
\* the former one, of shape (n, m), the axes have swapped indexes, the shape is
\* (n, m) and every axis has the size of its dimension; on another dim nothing
\* changes
C24_TransposeKeepsConsistency ==
    last.op = "transpose" =>
        IF last.pre.dim = "Data2D"
        THEN /\ data = [i \in 1..Len(data) |-> Transposed(last.pre.data[i])]
             /\ \A i \in 1..Len(axes) : axes[i].index = 1 - last.pre.axes[i].index
             /\ shape = <<last.pre.shape[2], last.pre.shape[1]>>
             /\ \A i \in 1..Len(axes) : axes[i].size = shape[axes[i].index + 1]
        ELSE Held = last.pre

(***************************************************************************)
(* Properties of the axes of AxesManager                                   *)
(***************************************************************************)
\* C25: _check_axis never raises for a list of Axis objects: assigning axes or
\* appending an axis, of any non-negative index and any size, completes without an
\* error
C25_CheckAxisNeverRaises ==
    last.op \in {"set_axes", "append_axis"} => last.exc = ""

\* C26: append_axis(axis) keeps every axis held before: afterwards the axes are the
\* previous axes followed by the new one
C26_AppendAxisKeepsAxes ==
    [][last'.op = "append_axis" =>
          /\ Len(axes') = Len(axes) + 1
          /\ SubSeq(axes', 1, Len(axes)) = axes]_vars

\* C27: reading the shape of the manager, directly or through nav_shape or
\* sig_shape, does not change the data_shape it stores, and shape returns that
\* data_shape, one entry per dimension, also when fewer axes are declared than the
\* data has dimensions
C27_ShapeReadsDataShape ==
    last.op \in {"shape", "nav_shape", "sig_shape"} =>
        /\ data_shape = last.pre
        /\ last.op = "shape" => (last.exc = "" /\ res = last.pre)

\* C30: is_axis_navigation(axis) is true exactly when axis.index is in nav_indexes,
\* is_axis_signal(axis) exactly when it is not
C30_AxisKindFollowsNavIndexes ==
    /\ last.op = "is_axis_navigation" => (res <=> last.axis.index \in Range(nav_indexes))
    /\ last.op = "is_axis_signal" => (res <=> last.axis.index \notin Range(nav_indexes))

(***************************************************************************)
(* Properties of the compact form of Axis                                  *)
(***************************************************************************)
\* an axis in compact form, of numeric offset and scaling
IsCompact(a) == ~a.hasdata /\ a.scaling.kind = "num" /\ a.offset.kind = "num"

\* the values offset + scaling * i of a compact axis, for i in 0..size-1
ValuesOf(a) == LinearData(a.offset, a.scaling, a.size)

\* C28: for an Axis in compact form of size >= 1, min() and max() are the smallest
\* and the largest of the values offset + scaling * i, i in 0..size-1, for positive
\* and for negative scaling
C28_CompactMinMax ==
    (last.op \in {"min", "max"} /\ IsCompact(axis_obj) /\ axis_obj.size >= 1) =>
        /\ last.op = "min" => res = Returned(Min(Range(ValuesOf(axis_obj))))
        /\ last.op = "max" => res = Returned(Largest(Range(ValuesOf(axis_obj))))

\* C29: slicing a compact Axis with slice(start, stop), 0 <= start <= stop, gives
\* the size and the values obtained by slicing its values offset + scaling * i with
\* that slice; an integer gives None; the axis sliced is unchanged
C29_CompactSliceAsExplicit ==
    last.op = "slice" =>
        /\ axis_obj = last.pre
        /\ last.item.kind = "int" => res.isnone
        /\ (last.item.kind = "slice" /\ IsCompact(axis_obj)) =>
              LET n == axis_obj.size
                  sl == SubSeq(ValuesOf(axis_obj), Smaller(last.item.start, n) + 1,
                               Smaller(last.item.stop, n))
              IN  /\ res.exc = ""
                  /\ ~res.isnone
                  /\ res.axis.size = Len(sl)
                  /\ ValuesOf(res.axis) = sl

====
